---- MODULE Spec2Model ----
(***************************************************************************)
(* Model of the hashfront autoplay agent (tools/autoplay): the pathfinder, *)
(* the turn planner and the multicall builder.                             *)
(*                                                                         *)
(* Cells are pairs <<x, y>>; grid[y][x] of the source is grid[<<x, y>>].   *)
(* The board of the program is 20 x 20; the model checks a Width x Height  *)
(* board.  Python dicts are sequences of entries in insertion order, so    *)
(* that "first minimum found" loops are modelled as the code runs them.    *)
(*                                                                         *)
(* The weights of a strategy are floats in the source and integers in      *)
(* hundredths here; every score built from them is scaled to an integer.   *)
(* The draws of the seeded random.Random in strategy.py are a choice among *)
(* their outcomes.  plan_turn runs as a sequence of steps (context, one    *)
(* step per unit in the order of the phases, end of turn); an exception    *)
(* ends the run at pc = "raised".  The calldata of a call holds the        *)
(* numbers whose decimal strings the source emits.                         *)
(***************************************************************************)
EXTENDS Integers, Sequences, FiniteSets, TLC

\* ------------------------------------------------------------------ bounds
Width == 5
Height == 5
MaxBudget == 4
MaxActions == 3
MaxGameId == 3
MaxGamesLimit == 2
MaxOwn == 2
MaxFoes == 6
MaxBatches == 3
MaxErrors == 2

\* ------------------------------------------------------------------ config.py
INFANTRY == "Infantry"
RANGER == "Ranger"
TANK == "Tank"
UnitTypes == {INFANTRY, RANGER, TANK}

MOVE_RANGE == [t \in UnitTypes |-> CASE t = INFANTRY -> 4 [] t = RANGER -> 3 [] t = TANK -> 2]
\* ATTACK_RANGE as a (min, max) band; a single value r is the band (r, r)
ATTACK_RANGE == [t \in UnitTypes |-> CASE t = INFANTRY -> <<1, 1>> [] t = RANGER -> <<2, 3>> [] t = TANK -> <<1, 1>>]
UNIT_ATK == [t \in UnitTypes |-> CASE t = INFANTRY -> 2 [] t = RANGER -> 3 [] t = TANK -> 4]
UNIT_HP == [t \in UnitTypes |-> CASE t = INFANTRY -> 3 [] t = RANGER -> 3 [] t = TANK -> 5]

TERRAIN_GRASS == 0
TERRAIN_MOUNTAIN == 1
TERRAIN_CITY == 2
TERRAIN_FACTORY == 3
TERRAIN_HQ == 4
TERRAIN_ROAD == 5
TERRAIN_TREE == 6
TERRAIN_DIRT_ROAD == 7
Terrains == 0..7

TERRAIN_COST == [t \in Terrains |-> IF t = TERRAIN_MOUNTAIN THEN 2 ELSE 1]
TERRAIN_DEFENSE == [t \in Terrains |-> CASE t = TERRAIN_MOUNTAIN -> 2 [] t = TERRAIN_HQ -> 2 [] t \in {TERRAIN_CITY, TERRAIN_FACTORY, TERRAIN_TREE} -> 1 [] OTHER -> 0]

\* Python's None, for a cost / a missing result
None == -1

\* ------------------------------------------------------------------ helpers
Cells == (0..(Width - 1)) \X (0..(Height - 1))

Abs(n) == IF n < 0 THEN -n ELSE n

\* Python's tuple order on cells (x, y)
PosLess(a, b) == a[1] < b[1] \/ (a[1] = b[1] /\ a[2] < b[2])

\* Python's list order on paths (lists of cells)
RECURSIVE PathLess(_, _)
PathLess(p, q) ==
  IF p = <<>> THEN q # <<>>
  ELSE IF q = <<>> THEN FALSE
  ELSE IF Head(p) # Head(q) THEN PosLess(Head(p), Head(q))
  ELSE PathLess(Tail(p), Tail(q))

\* Python's tuple order on heap entries (cost, pos, path)
EntryLess(a, b) ==
  \/ a.cost < b.cost
  \/ a.cost = b.cost /\ PosLess(a.pos, b.pos)
  \/ a.cost = b.cost /\ a.pos = b.pos /\ PathLess(a.path, b.path)

\* heapq.heappop: the least entry of the heap
HeapMin(open) == CHOOSE e \in open : \A f \in open \ {e} : EntryLess(e, f)

\* keys of a dict held as a sequence of entries
Keys(d) == {d[i].pos : i \in 1..Len(d)}
\* d[pos] for a key of the dict
Get(d, pos) == d[CHOOSE i \in 1..Len(d) : d[i].pos = pos]

SetMin(S) == CHOOSE m \in S : \A n \in S : m <= n

Max(a, b) == IF a >= b THEN a ELSE b

\* Python's order on tuples of numbers
RECURSIVE LexLess(_, _)
LexLess(a, b) ==
  IF a = <<>> THEN b # <<>>
  ELSE IF b = <<>> THEN FALSE
  ELSE IF Head(a) # Head(b) THEN Head(a) < Head(b)
  ELSE LexLess(Tail(a), Tail(b))

\* float('inf') of the tile scores
Inf == 1000000 * (2 * Width * Height + 1)

\* the "for ...: if score < best_score" loops: the index of the entry kept (0: none);
\* scores[i] = <<>> stands for an entry the loop skips
RECURSIVE FirstMin(_, _, _, _)
FirstMin(scores, i, best_i, best_score) ==
  IF i > Len(scores) THEN best_i
  ELSE IF scores[i] # <<>> /\ LexLess(scores[i], best_score)
       THEN FirstMin(scores, i + 1, i, scores[i])
       ELSE FirstMin(scores, i + 1, best_i, best_score)

\* a local variable of the code: the value v under the name F binds
With(v, F(_)) == F(v)

\* ------------------------------------------------------------------ pathfinder.py
manhattan(a, b) == Abs(a[1] - b[1]) + Abs(a[2] - b[2])

\* mutant: the eight surrounding cells instead of the four adjacent ones
neighbors_diagonal(pos) ==
  {n \in {<<pos[1] + dx, pos[2] + dy>> : dx \in {-1, 0, 1}, dy \in {-1, 0, 1}} \ {pos} :
     0 <= n[1] /\ n[1] < Width /\ 0 <= n[2] /\ n[2] < Height}

neighbors(pos) ==
  {n \in {<<pos[1], pos[2] - 1>>, <<pos[1], pos[2] + 1>>, <<pos[1] - 1, pos[2]>>, <<pos[1] + 1, pos[2]>>} :
     0 <= n[1] /\ n[1] < Width /\ 0 <= n[2] /\ n[2] < Height}

move_cost(terrain, unit_type) ==
  IF terrain = TERRAIN_MOUNTAIN
  THEN (IF unit_type # INFANTRY THEN None ELSE 2)
  ELSE TERRAIN_COST[terrain]

\* the while loop of find_reachable: open_set is the heap, best the dict
RECURSIVE find_reachable_loop(_, _, _, _, _, _)
find_reachable_loop(grid, unit_type, occupied, max_range, open_set, best) ==
  IF open_set = {} THEN best
  ELSE
    LET e == HeapMin(open_set)
        rest == open_set \ {e}
    IN IF e.pos \in Keys(best)
       THEN find_reachable_loop(grid, unit_type, occupied, max_range, rest, best)
       ELSE
         LET best2 == Append(best, e)
         IN IF e.cost >= max_range
            THEN find_reachable_loop(grid, unit_type, occupied, max_range, rest, best2)
            ELSE
              LET pushed == {[cost |-> e.cost + move_cost(grid[n], unit_type), pos |-> n, path |-> Append(e.path, n)] :
                               n \in {m \in neighbors(e.pos) :
                                        /\ m \notin Keys(best2)
                                        /\ move_cost(grid[m], unit_type) # None
                                        /\ e.cost + move_cost(grid[m], unit_type) <= max_range
                                        /\ m \notin occupied}}
              IN find_reachable_loop(grid, unit_type, occupied, max_range, rest \cup pushed, best2)

\* mutant: the budget bound is exclusive
find_reachable_exclusive(grid, start, unit_type, occupied, max_range) ==
  find_reachable_loop(grid, unit_type, occupied,
                      (IF max_range = None THEN MOVE_RANGE[unit_type] ELSE max_range) - 1,
                      {[cost |-> 0, pos |-> start, path |-> <<>>]}, <<>>)

\* mutant: the start cell is left out of the result
find_reachable_without_start(grid, start, unit_type, occupied, max_range) ==
  Tail(find_reachable_loop(grid, unit_type, occupied,
                           IF max_range = None THEN MOVE_RANGE[unit_type] ELSE max_range,
                           {[cost |-> 0, pos |-> start, path |-> <<>>]}, <<>>))

\* find_reachable if occupied cells did not block the search
find_reachable_through_units(grid, start, unit_type, occupied, max_range) ==
  find_reachable_loop(grid, unit_type, {},
                      IF max_range = None THEN MOVE_RANGE[unit_type] ELSE max_range,
                      {[cost |-> 0, pos |-> start, path |-> <<>>]}, <<>>)

\* find_reachable: max_range = None takes the unit type's MOVE_RANGE
find_reachable(grid, start, unit_type, occupied, max_range) ==
  find_reachable_loop(grid, unit_type, occupied,
                      IF max_range = None THEN MOVE_RANGE[unit_type] ELSE max_range,
                      {[cost |-> 0, pos |-> start, path |-> <<>>]}, <<>>)

\* heap entries of full_path_distance are (cost, pos)
DistLess(a, b) == a.cost < b.cost \/ (a.cost = b.cost /\ PosLess(a.pos, b.pos))
\* mutant: the heap pops its greatest entry
DistMax(open) == CHOOSE e \in open : \A f \in open \ {e} : DistLess(f, e)

DistMin(open) == CHOOSE e \in open : \A f \in open \ {e} : DistLess(e, f)

RECURSIVE full_path_distance_loop(_, _, _, _)
full_path_distance_loop(grid, unit_type, open_set, dist) ==
  IF open_set = {} THEN dist
  ELSE
    LET e == DistMin(open_set)
        rest == open_set \ {e}
    IN IF e.pos \in Keys(dist)
       THEN full_path_distance_loop(grid, unit_type, rest, dist)
       ELSE
         LET dist2 == Append(dist, e)
             pushed == {[cost |-> e.cost + move_cost(grid[n], unit_type), pos |-> n] :
                          n \in {m \in neighbors(e.pos) :
                                   m \notin Keys(dist2) /\ move_cost(grid[m], unit_type) # None}}
         IN full_path_distance_loop(grid, unit_type, rest \cup pushed, dist2)

\* full_path_distance: the start argument is not used by the code
full_path_distance(grid, start, goal, unit_type) ==
  full_path_distance_loop(grid, unit_type, {[cost |-> 0, pos |-> goal]}, <<>>)

\* a variant that takes the first reachable tile closer to the goal than the start
best_move_toward_first_closer(grid, start, goal, unit_type, occupied) ==
  With(find_reachable(grid, start, unit_type, occupied, None), LAMBDA reach :
    IF goal \in Keys(reach) /\ Get(reach, goal).path # <<>> THEN Get(reach, goal).path
    ELSE With(full_path_distance(grid, start, goal, unit_type), LAMBDA dist :
      IF start \notin Keys(dist) THEN <<>>
      ELSE With({i \in 1..Len(reach) : /\ reach[i].path # <<>>
                                       /\ reach[i].pos \in Keys(dist)
                                       /\ Get(dist, reach[i].pos).cost < Get(dist, start).cost}, LAMBDA closer :
             IF closer = {} THEN <<>> ELSE reach[SetMin(closer)].path)))

\* best_move_toward; float('inf') for a tile without a distance never beats best_dist
best_move_toward(grid, start, goal, unit_type, occupied) ==
  With(find_reachable(grid, start, unit_type, occupied, None), LAMBDA reach :
    IF goal \in Keys(reach) /\ Get(reach, goal).path # <<>> THEN Get(reach, goal).path
    ELSE With(full_path_distance(grid, start, goal, unit_type), LAMBDA dist :
      IF start \notin Keys(dist) THEN <<>>
      ELSE With(FirstMin([i \in 1..Len(reach) |->
                            IF reach[i].pos = start \/ reach[i].path = <<>> THEN <<>>
                            ELSE IF reach[i].pos \notin Keys(dist) THEN <<Inf>>
                            ELSE <<Get(dist, reach[i].pos).cost>>],
                         1, 0, <<Get(dist, start).cost>>), LAMBDA best_i :
             IF best_i = 0 THEN <<>> ELSE reach[best_i].path)))

\* find_adjacent_to: the least (cost, pos, path) among the reachable neighbours of
\* the target; no candidate (None) is the empty path, which callers test alike
find_adjacent_to(grid, target, unit_type, start, occupied) ==
  With(find_reachable(grid, start, unit_type, occupied, None), LAMBDA reach :
    With({Get(reach, n) : n \in {m \in neighbors(target) : m \in Keys(reach) /\ Get(reach, m).path # <<>>}},
         LAMBDA candidates : IF candidates = {} THEN <<>> ELSE HeapMin(candidates).path))

\* ------------------------------------------------------------------ state.py
\* a missing cell (get_hq returning None)
NoPos == <<None, None>>

Pos(u) == <<u.x, u.y>>

alive_units(gs, player) == SelectSeq(gs.units, LAMBDA u : u.player_id = player /\ u.is_alive)

enemy_units(gs, player) == SelectSeq(gs.units, LAMBDA u : u.player_id # player /\ u.is_alive)

get_hq(gs, player) ==
  LET hqs == SelectSeq(gs.buildings, LAMBDA b : b.building_type = "HQ" /\ b.player_id = player)
  IN IF hqs = <<>> THEN NoPos ELSE <<hqs[1].x, hqs[1].y>>

occupied_positions(gs) == {Pos(gs.units[i]) : i \in {j \in 1..Len(gs.units) : gs.units[j].is_alive}}

\* ------------------------------------------------------------------ strategy.py
\* the weights of a Strategy are held in hundredths (0.15 is 15)
Strategy(n, ag, ff, rt, tw, hq, fo, fl, sc) ==
  [name |-> n, aggression |-> ag, focus_fire |-> ff, retreat_threshold |-> rt, terrain_weight |-> tw,
   hq_pressure |-> hq, formation |-> fo, flank_ratio |-> fl, screen_ratio |-> sc]

DEATHBALL == Strategy("Deathball", 60, 100, 40, 150, 30, 100, 0, 0)
TURTLE == Strategy("Turtle", 15, 80, 70, 250, 10, 80, 0, 0)
GUERRILLA == Strategy("Guerrilla", 50, 60, 50, 100, 80, 20, 40, 0)
RUSH == Strategy("Rush", 100, 30, 10, 0, 100, 30, 60, 0)
RANGER_FORTRESS == Strategy("Ranger Fortress", 30, 90, 60, 200, 20, 90, 0, 30)
ASSASSIN == Strategy("Assassin", 90, 100, 20, 50, 20, 60, 0, 0)

ALL_STRATEGIES == <<DEATHBALL, TURTLE, GUERRILLA, RUSH, RANGER_FORTRESS, ASSASSIN>>

STRATEGY_WEIGHTS == <<3, 2, 3, 1, 2, 1>>

RECURSIVE Repeat(_, _)
Repeat(x, n) == IF n = 0 THEN <<>> ELSE <<x>> \o Repeat(x, n - 1)

RECURSIVE Pool(_)
Pool(i) == IF i > Len(ALL_STRATEGIES) THEN <<>> ELSE Repeat(ALL_STRATEGIES[i], STRATEGY_WEIGHTS[i]) \o Pool(i + 1)

\* the outcomes of the seeded random.Random draws of one call: the comparisons
\* rng.random() < p at each rule, the index of rng.choice([GUERRILLA, RUSH]) and the
\* index of rng.choice(pool) in pick_strategy
Draws ==
  [turtle : BOOLEAN, desperate : 1..2, fortress : BOOLEAN, deathball : BOOLEAN, assassin : BOOLEAN,
   pool : 1..Len(Pool(1))]

pick_strategy(game_id, player, draws) == Pool(1)[draws.pool]

CountType(us, t) == Len(SelectSeq(us, LAMBDA u : u.unit_type = t))

\* a variant that tries the ranger fortress before the "way behind" rule
pick_strategy_adaptive_fortress_first(gs, player, draws) ==
  LET my_units == alive_units(gs, player)
      enemies == enemy_units(gs, player)
      my_count == Len(my_units)
      enemy_count == Len(enemies)
  IN IF enemies = <<>> THEN RUSH
     ELSE IF my_count >= enemy_count + 3 /\ draws.turtle THEN TURTLE
     ELSE IF CountType(my_units, RANGER) >= 2 /\ CountType(my_units, TANK) >= 1 /\ draws.fortress THEN RANGER_FORTRESS
     ELSE IF enemy_count >= my_count + 3 THEN <<GUERRILLA, RUSH>>[draws.desperate]
     ELSE pick_strategy(gs.info.game_id, player, draws)

pick_strategy_adaptive(gs, player, draws) ==
  LET my_units == alive_units(gs, player)
      enemies == enemy_units(gs, player)
      rnd == gs.info.round
      my_count == Len(my_units)
      enemy_count == Len(enemies)
      my_rangers == CountType(my_units, RANGER)
      my_tanks == CountType(my_units, TANK)
      enemy_rangers == CountType(enemies, RANGER)
  IN IF enemies = <<>> THEN RUSH
     ELSE IF my_count >= enemy_count + 3 /\ draws.turtle THEN TURTLE
     ELSE IF enemy_count >= my_count + 3 THEN <<GUERRILLA, RUSH>>[draws.desperate]
     ELSE IF my_rangers >= 2 /\ my_tanks >= 1 /\ draws.fortress THEN RANGER_FORTRESS
     ELSE IF enemy_rangers = 0 /\ draws.deathball THEN DEATHBALL
     ELSE IF rnd >= 12 /\ Abs(my_count - enemy_count) <= 1 /\ draws.assassin THEN ASSASSIN
     ELSE pick_strategy(gs.info.game_id, player, draws)

\* ------------------------------------------------------------------ planner.py
MoveAction(id, path) == [kind |-> "Move", unit_id |-> id, target_id |-> None, path |-> path]
AttackAction(id, target) == [kind |-> "Attack", unit_id |-> id, target_id |-> target, path |-> <<>>]
CaptureAction(id) == [kind |-> "Capture", unit_id |-> id, target_id |-> None, path |-> <<>>]
WaitAction(id) == [kind |-> "Wait", unit_id |-> id, target_id |-> None, path |-> <<>>]
EndTurnAction == [kind |-> "EndTurn", unit_id |-> None, target_id |-> None, path |-> <<>>]

\* list.sort on entries [key, val]: stable, ascending in key
RECURSIVE InsertByKey(_, _)
InsertByKey(sorted, e) ==
  IF sorted = <<>> THEN <<e>>
  ELSE IF LexLess(e.key, sorted[Len(sorted)].key)
       THEN Append(InsertByKey(SubSeq(sorted, 1, Len(sorted) - 1), e), sorted[Len(sorted)])
       ELSE Append(sorted, e)

RECURSIVE SortByKey(_)
SortByKey(es) ==
  IF es = <<>> THEN <<>> ELSE InsertByKey(SortByKey(SubSeq(es, 1, Len(es) - 1)), es[Len(es)])

Vals(es) == [i \in 1..Len(es) |-> es[i].val]

tiles_in_attack_range(pos, a_range) ==
  {c \in {<<pos[1] + dx, pos[2] + dy>> :
            dx \in (-a_range[2])..a_range[2], dy \in (-a_range[2])..a_range[2]} :
     /\ a_range[1] <= manhattan(c, pos) /\ manhattan(c, pos) <= a_range[2]
     /\ 0 <= c[1] /\ c[1] < Width /\ 0 <= c[2] /\ c[2] < Height}

\* a variant that adds the attack value whatever the terrain of the cell
RECURSIVE danger_of_tiles_without_defense(_, _, _, _, _, _)
danger_of_tiles_without_defense(grid, atk, a_range, reach, i, danger) ==
  IF i > Len(reach) THEN danger
  ELSE LET hit == tiles_in_attack_range(reach[i].pos, a_range)
       IN danger_of_tiles_without_defense(grid, atk, a_range, reach, i + 1,
            [c \in Cells |-> IF c \in hit THEN danger[c] + atk ELSE danger[c]])

\* the loop over the tiles an enemy can reach: each adds its damage to the cells in
\* its attack band
RECURSIVE danger_of_tiles(_, _, _, _, _, _)
danger_of_tiles(grid, atk, a_range, reach, i, danger) ==
  IF i > Len(reach) THEN danger
  ELSE LET hit == tiles_in_attack_range(reach[i].pos, a_range)
       IN danger_of_tiles(grid, atk, a_range, reach, i + 1,
            [c \in Cells |-> IF c \in hit THEN danger[c] + Max(atk - TERRAIN_DEFENSE[grid[c]], 1) ELSE danger[c]])

RECURSIVE danger_of_enemies(_, _, _, _)
danger_of_enemies(grid, enemies, i, danger) ==
  IF i > Len(enemies) THEN danger
  ELSE LET enemy == enemies[i]
       IN danger_of_enemies(grid, enemies, i + 1,
            danger_of_tiles(grid, UNIT_ATK[enemy.unit_type], ATTACK_RANGE[enemy.unit_type],
                            find_reachable(grid, Pos(enemy), enemy.unit_type, {}, None), 1, danger))

\* build_danger_map: a cell missing from the dict has danger 0
build_danger_map(gs, enemies) == danger_of_enemies(gs.grid, enemies, 1, [c \in Cells |-> 0])

RECURSIVE SumSeq(_)
SumSeq(s) == IF s = <<>> THEN 0 ELSE Head(s) + SumSeq(Tail(s))

SumX(us) == SumSeq([i \in 1..Len(us) |-> us[i].x])
SumY(us) == SumSeq([i \in 1..Len(us) |-> us[i].y])

\* assign_focus_targets: the score is held times 100
assign_focus_targets(my_units, enemies, gs, strat) ==
  IF enemies = <<>> THEN <<>>
  ELSE LET centre == <<SumX(my_units) \div Len(my_units), SumY(my_units) \div Len(my_units)>>
           score(e) == e.hp * 10 * strat.focus_fire
                       + manhattan(Pos(e), centre) * 5 * (100 - strat.focus_fire)
                       - UNIT_ATK[e.unit_type] * 200
       IN Vals(SortByKey([i \in 1..Len(enemies) |->
                 [key |-> <<score(enemies[i]), enemies[i].unit_id>>, val |-> enemies[i]]]))

unit_value(t) == CASE t = TANK -> 30 [] t = RANGER -> 20 [] OTHER -> 10

\* a variant that ranks by unit-type value and then by unit id, whatever the hit points
assign_assassin_targets_by_value_alone(enemies, gs) ==
  IF enemies = <<>> THEN <<>>
  ELSE Vals(SortByKey([i \in 1..Len(enemies) |->
              [key |-> <<-unit_value(enemies[i].unit_type), enemies[i].unit_id>>, val |-> enemies[i]]]))

assign_assassin_targets(enemies, gs) ==
  IF enemies = <<>> THEN <<>>
  ELSE Vals(SortByKey([i \in 1..Len(enemies) |->
              [key |-> <<-unit_value(enemies[i].unit_type), enemies[i].hp, enemies[i].unit_id>>, val |-> enemies[i]]]))

\* a missing unit (None as a target)
NoUnit == [unit_id |-> None, player_id |-> None, unit_type |-> "", x |-> None, y |-> None, hp |-> 0,
           is_alive |-> FALSE, last_acted_round |-> 0]

\* what a role planner returns: its actions and the unit's new cell, with the ledger
\* it has updated; raised is set when the call ends in an exception
Planned(acts, new_pos, ledger) == [actions |-> acts, new_pos |-> new_pos, already_targeted |-> ledger, raised |-> FALSE]
Raised(unit_pos, ledger) == [actions |-> <<>>, new_pos |-> unit_pos, already_targeted |-> ledger, raised |-> TRUE]

in_attack_range(unit_type, attacker_pos, target_pos) ==
  LET dist == manhattan(attacker_pos, target_pos)
      r == ATTACK_RANGE[unit_type]
  IN r[1] <= dist /\ dist <= r[2]

\* the choice of a target without the ledger: the first target alive and in range
pick_target_ignoring_ledger(unit, unit_pos, targets, gs, already_targeted, strat) ==
  LET ok == {i \in 1..Len(targets) :
               targets[i].is_alive /\ in_attack_range(unit.unit_type, unit_pos, Pos(targets[i]))}
  IN IF ok = {} THEN NoUnit ELSE targets[SetMin(ok)]

\* a variant that takes the first target alive and not yet covered, at any distance
pick_focus_target_at_any_range(unit, unit_pos, targets, gs, already_targeted, strat) ==
  LET ok == {i \in 1..Len(targets) :
               targets[i].is_alive /\ ~(targets[i].hp <= already_targeted[targets[i].unit_id])}
  IN IF ok = {} THEN NoUnit ELSE targets[SetMin(ok)]

\* pick_focus_target_in_range: the first target alive, not yet covered by the ledger
\* and in range (the focus_fire < 0.8 branch of the code does nothing)
pick_focus_target_in_range(unit, unit_pos, targets, gs, already_targeted, strat) ==
  LET ok == {i \in 1..Len(targets) :
               /\ targets[i].is_alive
               /\ ~(targets[i].hp <= already_targeted[targets[i].unit_id])
               /\ in_attack_range(unit.unit_type, unit_pos, Pos(targets[i]))}
  IN IF ok = {} THEN NoUnit ELSE targets[SetMin(ok)]

record_attack(unit, target, gs, already_targeted) ==
  LET defense == TERRAIN_DEFENSE[gs.grid[Pos(target)]]
      dmg == Max(UNIT_ATK[unit.unit_type] - defense, 1)
  IN [already_targeted EXCEPT ![target.unit_id] = @ + dmg]

\* a variant that puts the Wait in front of the unit's actions
wait_put_first(actions, unit, pos, last_target, gs, already_targeted) == <<WaitAction(unit.unit_id)>> \o actions

append_wait_if_safe(actions, unit, pos, last_target, gs, already_targeted) ==
  IF actions = <<>> THEN <<WaitAction(unit.unit_id)>>
  ELSE IF /\ last_target # NoUnit
          /\ last_target.is_alive
          /\ last_target.hp - already_targeted[last_target.unit_id] > 0
          /\ unit.hp <= Max(UNIT_ATK[last_target.unit_type] - TERRAIN_DEFENSE[gs.grid[pos]], 1)
       THEN actions
       ELSE Append(actions, WaitAction(unit.unit_id))

\* a variant that lets every unit type capture
CanCapture_any_type(unit) == TRUE

CanCapture(unit) == unit.unit_type \in {INFANTRY, RANGER}

\* plan_flanker: the tile score d * 2.0 + (danger - defense) * 0.5 is held times 2
plan_flanker(unit, unit_pos, enemy_hq, enemies, gs, occupied, danger_map, strat, already_targeted) ==
  IF enemy_hq = NoPos THEN Planned(<<WaitAction(unit.unit_id)>>, unit_pos, already_targeted)
  ELSE IF unit_pos = enemy_hq /\ CanCapture(unit)
  THEN Planned(<<CaptureAction(unit.unit_id)>>, unit_pos, already_targeted)
  ELSE
    With(find_reachable(gs.grid, unit_pos, unit.unit_type, occupied \ {unit_pos}, None), LAMBDA reach :
    With(full_path_distance(gs.grid, <<0, 0>>, enemy_hq, unit.unit_type), LAMBDA dist :
    With(FirstMin([i \in 1..Len(reach) |->
                     IF reach[i].path = <<>> THEN <<>>
                     ELSE IF reach[i].pos \notin Keys(dist) THEN <<Inf>>
                     ELSE <<4 * Get(dist, reach[i].pos).cost
                            + danger_map[reach[i].pos] - TERRAIN_DEFENSE[gs.grid[reach[i].pos]]>>],
                  1, 0, <<Inf>>), LAMBDA b :
      IF b # 0 /\ reach[b].pos # unit_pos
      THEN Planned(<<MoveAction(unit.unit_id, reach[b].path)>>
                   \o (IF reach[b].pos = enemy_hq /\ CanCapture(unit) THEN <<CaptureAction(unit.unit_id)>> ELSE <<>>)
                   \o <<WaitAction(unit.unit_id)>>,
                   reach[b].pos, already_targeted)
      ELSE Planned(<<WaitAction(unit.unit_id)>>, unit_pos, already_targeted))))

\* retreat_score, held times 100
retreat_score(tile, danger_map, gs, enemy_center, my_hq, strat) ==
  100 * danger_map[tile] - TERRAIN_DEFENSE[gs.grid[tile]] * strat.terrain_weight
  + (IF my_hq # NoPos /\ strat.aggression < 30
     THEN manhattan(tile, my_hq) * 50
     ELSE -(manhattan(tile, enemy_center) * 30))

plan_retreat(unit, unit_pos, enemies, danger_map, gs, occupied, my_hq, strat, already_targeted) ==
  With(find_reachable(gs.grid, unit_pos, unit.unit_type, occupied \ {unit_pos}, None), LAMBDA reach :
  \* int() of the enemies' mean position
  With(<<SumX(enemies) \div Len(enemies), SumY(enemies) \div Len(enemies)>>, LAMBDA enemy_center :
  With(FirstMin([i \in 1..Len(reach) |->
                   IF reach[i].path = <<>> THEN <<>>
                   ELSE <<retreat_score(reach[i].pos, danger_map, gs, enemy_center, my_hq, strat)>>],
                1, 0, <<retreat_score(unit_pos, danger_map, gs, enemy_center, my_hq, strat)>>), LAMBDA b :
    IF b # 0
    THEN Planned(<<MoveAction(unit.unit_id, reach[b].path), WaitAction(unit.unit_id)>>, reach[b].pos, already_targeted)
    ELSE Planned(<<WaitAction(unit.unit_id)>>, unit_pos, already_targeted))))

\* best_advance_tile: the index of the tile kept (0: none); the score is held times 10000
best_advance_tile(reach, goal_pos, gs, danger_map, unit_type, strat) ==
  With(full_path_distance(gs.grid, <<0, 0>>, goal_pos, unit_type), LAMBDA dist :
    FirstMin([i \in 1..Len(reach) |->
                IF reach[i].path = <<>> \/ reach[i].pos \notin Keys(dist) THEN <<>>
                ELSE <<Get(dist, reach[i].pos).cost * (200 - strat.aggression) * 100
                       - TERRAIN_DEFENSE[gs.grid[reach[i].pos]] * strat.terrain_weight * 100
                       + danger_map[reach[i].pos] * (5000 - 30 * strat.aggression)>>],
             1, 0, <<Inf>>))

\* "attack from where the unit stands": the Attack, the ledger entry and the Wait
\* unless the counterattack of the surviving target would kill the unit
attack_in_place(unit, unit_pos, target, gs, already_targeted) ==
  With(record_attack(unit, target, gs, already_targeted), LAMBDA ledger :
    Planned(append_wait_if_safe(<<AttackAction(unit.unit_id, target.unit_id)>>, unit, unit_pos, target, gs, ledger),
            unit_pos, ledger))

\* "move, then attack if a target is in range": keep_target tells whether the target
\* is the last_target of _append_wait_if_safe (the screener) or None (melee, ranger)
move_then_attack(unit, path, new_pos, targets, gs, already_targeted, strat, keep_target) ==
  With(pick_focus_target_in_range(unit, new_pos, targets, gs, already_targeted, strat), LAMBDA target :
    IF target # NoUnit
    THEN With(record_attack(unit, target, gs, already_targeted), LAMBDA ledger :
           Planned(append_wait_if_safe(<<MoveAction(unit.unit_id, path), AttackAction(unit.unit_id, target.unit_id)>>,
                                       unit, new_pos, IF keep_target THEN target ELSE NoUnit, gs, ledger),
                   new_pos, ledger))
    ELSE Planned(append_wait_if_safe(<<MoveAction(unit.unit_id, path)>>, unit, new_pos, NoUnit, gs, already_targeted),
                 new_pos, already_targeted))

\* "move without a target": the Move, if there is a path, and the Wait
move_only(unit, unit_pos, path, new_pos, gs, already_targeted) ==
  IF path # <<>>
  THEN Planned(append_wait_if_safe(<<MoveAction(unit.unit_id, path)>>, unit, new_pos, NoUnit, gs, already_targeted),
               new_pos, already_targeted)
  ELSE Planned(append_wait_if_safe(<<>>, unit, unit_pos, NoUnit, gs, already_targeted), unit_pos, already_targeted)

plan_melee(unit, unit_pos, enemies, focus_order, gs, occupied, already_targeted, danger_map, strat) ==
  With(pick_focus_target_in_range(unit, unit_pos, focus_order, gs, already_targeted, strat), LAMBDA target :
    IF target # NoUnit THEN attack_in_place(unit, unit_pos, target, gs, already_targeted)
    ELSE IF strat.aggression < 30 /\ TERRAIN_DEFENSE[gs.grid[unit_pos]] >= 1
    THEN Planned(<<WaitAction(unit.unit_id)>>, unit_pos, already_targeted)
    ELSE
      With(Pos(IF focus_order # <<>> THEN focus_order[1] ELSE enemies[1]), LAMBDA primary_pos :
      With(find_adjacent_to(gs.grid, primary_pos, unit.unit_type, unit_pos, occupied \ {unit_pos}), LAMBDA path :
        IF path # <<>>
        THEN move_then_attack(unit, path, path[Len(path)], focus_order, gs, already_targeted, strat, FALSE)
        ELSE With(find_reachable(gs.grid, unit_pos, unit.unit_type, occupied \ {unit_pos}, None), LAMBDA reach :
             With(best_advance_tile(reach, primary_pos, gs, danger_map, unit.unit_type, strat), LAMBDA b :
               IF b # 0 THEN move_only(unit, unit_pos, reach[b].path, reach[b].pos, gs, already_targeted)
               ELSE move_only(unit, unit_pos, <<>>, unit_pos, gs, already_targeted))))))

\* plan_ranger: the tile score (0 if in_range else 1, danger - defense * terrain_weight, d)
\* holds its second component times 100
plan_ranger(unit, unit_pos, enemies, focus_order, gs, occupied, already_targeted, danger_map, strat) ==
  With(pick_focus_target_in_range(unit, unit_pos, focus_order, gs, already_targeted, strat), LAMBDA target :
    IF target # NoUnit THEN attack_in_place(unit, unit_pos, target, gs, already_targeted)
    ELSE
      With(Pos(IF focus_order # <<>> THEN focus_order[1] ELSE enemies[1]), LAMBDA primary_pos :
      With(find_reachable(gs.grid, unit_pos, unit.unit_type, occupied \ {unit_pos}, None), LAMBDA reach :
      With(ATTACK_RANGE[RANGER], LAMBDA a_range :
      With(FirstMin([i \in 1..Len(reach) |->
                       IF reach[i].path = <<>> THEN <<>>
                       ELSE With(manhattan(reach[i].pos, primary_pos), LAMBDA d :
                              <<IF a_range[1] <= d /\ d <= a_range[2] THEN 0 ELSE 1,
                                100 * danger_map[reach[i].pos] - TERRAIN_DEFENSE[gs.grid[reach[i].pos]] * strat.terrain_weight,
                                d>>)],
                    1, 0, <<Inf>>), LAMBDA b :
        IF b # 0 /\ reach[b].pos # unit_pos
        THEN move_then_attack(unit, reach[b].path, reach[b].pos, focus_order, gs, already_targeted, strat, FALSE)
        ELSE With(best_move_toward(gs.grid, unit_pos, primary_pos, unit.unit_type, occupied \ {unit_pos}), LAMBDA path :
               move_only(unit, unit_pos, path, IF path # <<>> THEN path[Len(path)] ELSE unit_pos, gs, already_targeted)))))))

plan_combat_unit(unit, unit_pos, enemies, focus_order, gs, occupied, already_targeted, danger_map, strat) ==
  IF unit.unit_type = RANGER
  THEN plan_ranger(unit, unit_pos, enemies, focus_order, gs, occupied, already_targeted, danger_map, strat)
  ELSE plan_melee(unit, unit_pos, enemies, focus_order, gs, occupied, already_targeted, danger_map, strat)

\* min(seq, key = distance to pos): the first unit of the least distance
Nearest(us, pos) == us[FirstMin([i \in 1..Len(us) |-> <<manhattan(pos, Pos(us[i]))>>], 1, 0, <<Inf>>)]

\* int(e * 0.6 + r * 0.4) in double arithmetic: the floor of the exact value, but for
\* (6, 1) and (12, 2), where the float sum falls just below the integer
intercept_coord(e, r) ==
  IF <<e, r>> \in {<<6, 1>>, <<12, 2>>} THEN (6 * e + 4 * r) \div 10 - 1 ELSE (6 * e + 4 * r) \div 10

plan_screener(unit, unit_pos, enemies, my_units, gs, occupied, already_targeted, danger_map, strat) ==
  With(pick_focus_target_in_range(unit, unit_pos, enemies, gs, already_targeted, strat), LAMBDA target :
    IF target # NoUnit THEN attack_in_place(unit, unit_pos, target, gs, already_targeted)
    ELSE
      With(SelectSeq(my_units, LAMBDA u : u.unit_type = RANGER /\ u.is_alive), LAMBDA rangers :
        IF rangers = <<>>
        THEN plan_melee(unit, unit_pos, enemies, enemies, gs, occupied, already_targeted, danger_map, strat)
        ELSE
          With(Nearest(enemies, unit_pos), LAMBDA nearest_enemy :
          With(Nearest(rangers, unit_pos), LAMBDA nearest_ranger :
          With(<<intercept_coord(nearest_enemy.x, nearest_ranger.x),
                 intercept_coord(nearest_enemy.y, nearest_ranger.y)>>, LAMBDA intercept :
          With(best_move_toward(gs.grid, unit_pos, intercept, unit.unit_type, occupied \ {unit_pos}), LAMBDA path :
            IF path # <<>>
            THEN move_then_attack(unit, path, path[Len(path)], enemies, gs, already_targeted, strat, TRUE)
            ELSE Planned(<<WaitAction(unit.unit_id)>>, unit_pos, already_targeted)))))))

\* plan_capture_march; without an enemy HQ the goal handed to best_move_toward is
\* None, and full_path_distance raises TypeError at neighbors(pos[0], pos[1])
plan_capture_march(unit, unit_pos, enemy_hq, gs, occupied, already_targeted) ==
  IF unit_pos = enemy_hq
  THEN Planned(IF CanCapture(unit) THEN <<CaptureAction(unit.unit_id)>> ELSE <<>>, unit_pos, already_targeted)
  ELSE IF enemy_hq = NoPos THEN Raised(unit_pos, already_targeted)
  ELSE
    With(best_move_toward(gs.grid, unit_pos, enemy_hq, unit.unit_type, occupied \ {unit_pos}), LAMBDA path :
      IF path # <<>>
      THEN Planned(<<MoveAction(unit.unit_id, path)>>
                   \o (IF path[Len(path)] = enemy_hq /\ CanCapture(unit) THEN <<CaptureAction(unit.unit_id)>> ELSE <<>>),
                   path[Len(path)], already_targeted)
      ELSE Planned(<<>>, unit_pos, already_targeted))

\* the triage of one unit without the comparison of its hit-point ratio
should_retreat_by_danger_alone(unit, danger_map, strat) ==
  LET incoming == danger_map[Pos(unit)]
  IN incoming > 0 /\ unit.hp <= incoming /\ unit.hp < UNIT_HP[unit.unit_type]

\* the triage of one unit (lines 207-218); hp / max_hp <= retreat_threshold is
\* compared in hundredths
should_retreat(unit, danger_map, strat) ==
  LET incoming == danger_map[Pos(unit)]
      max_hp == UNIT_HP[unit.unit_type]
  IN /\ unit.hp * 100 <= strat.retreat_threshold * max_hp
     /\ incoming > 0
     /\ unit.hp <= incoming
     /\ unit.hp < max_hp

\* the role groups if the triage ran over every eligible unit, the flankers included
RoleGroups_triage_of_all(gs, actionable, enemies, enemy_hq, danger_map, strat) ==
  With(SelectSeq(actionable, LAMBDA u : u.unit_type = INFANTRY), LAMBDA infantry :
  With((Len(infantry) * strat.flank_ratio) \div 100, LAMBDA n_flankers :
    [flankers |-> IF n_flankers > 0 /\ enemy_hq # NoPos THEN SubSeq(infantry, 1, n_flankers) ELSE <<>>,
     screeners |-> <<>>,
     retreaters |-> SelectSeq(actionable, LAMBDA u : should_retreat(u, danger_map, strat)),
     attackers |-> SelectSeq(actionable, LAMBDA u : ~should_retreat(u, danger_map, strat))]))

\* the four role groups of plan_turn (lines 178-223)
RoleGroups(gs, actionable, enemies, enemy_hq, danger_map, strat) ==
  With(SelectSeq(actionable, LAMBDA u : u.unit_type = INFANTRY), LAMBDA infantry :
  With(SelectSeq(actionable, LAMBDA u : u.unit_type # INFANTRY), LAMBDA others :
  With((Len(infantry) * strat.flank_ratio) \div 100, LAMBDA n_flankers :
  \* key: minus the distance to the enemies' mean position, held times len(enemies)
  With(IF n_flankers > 0 /\ enemy_hq # NoPos
       THEN Vals(SortByKey([i \in 1..Len(infantry) |->
                   [key |-> <<-(Abs(Len(enemies) * infantry[i].x - SumX(enemies))
                                + Abs(Len(enemies) * infantry[i].y - SumY(enemies)))>>,
                    val |-> infantry[i]]]))
       ELSE infantry, LAMBDA by_distance :
  With(IF n_flankers > 0 /\ enemy_hq # NoPos THEN SubSeq(by_distance, 1, n_flankers) ELSE <<>>, LAMBDA flankers :
  With(SubSeq(by_distance, Len(flankers) + 1, Len(by_distance)), LAMBDA infantry2 :
  With((Len(infantry2) * strat.screen_ratio) \div 100, LAMBDA n_screeners :
  With(IF n_screeners > 0
       THEN Vals(SortByKey([i \in 1..Len(infantry2) |-> [key |-> <<infantry2[i].hp>>, val |-> infantry2[i]]]))
       ELSE infantry2, LAMBDA by_hp :
  With(SubSeq(by_hp, n_screeners + 1, Len(by_hp)) \o others, LAMBDA remaining :
    [flankers |-> flankers,
     screeners |-> SubSeq(by_hp, 1, n_screeners),
     retreaters |-> SelectSeq(remaining, LAMBDA u : should_retreat(u, danger_map, strat)),
     attackers |-> SelectSeq(remaining, LAMBDA u : ~should_retreat(u, danger_map, strat))])))))))))

\* ------------------------------------------------------------------ executor.py
Call(entrypoint, calldata) == [entrypoint |-> entrypoint, calldata |-> calldata]

RECURSIVE Flatten(_)
Flatten(path) == IF path = <<>> THEN <<>> ELSE <<Head(path)[1], Head(path)[2]>> \o Flatten(Tail(path))

\* the first loop of actions_to_calls: one call for a move, an attack and, without a
\* capture in the list, an end of turn
RECURSIVE calls_in_order(_, _, _)
calls_in_order(game_id, acts, has_capture) ==
  IF acts = <<>> THEN <<>>
  ELSE LET a == Head(acts)
           rest == calls_in_order(game_id, Tail(acts), has_capture)
       IN IF has_capture /\ a.kind = "EndTurn" THEN rest
          ELSE IF a.kind = "Move" THEN <<Call("move_unit", <<game_id, a.unit_id, Len(a.path)>> \o Flatten(a.path))>> \o rest
          ELSE IF a.kind = "Attack" THEN <<Call("attack", <<game_id, a.unit_id, a.target_id>>)>> \o rest
          ELSE IF a.kind = "Capture" THEN rest
          ELSE IF a.kind = "EndTurn" THEN <<Call("end_turn", <<game_id>>)>> \o rest
          ELSE rest

\* the second loop: the captures, appended last
RECURSIVE capture_calls(_, _)
capture_calls(game_id, acts) ==
  IF acts = <<>> THEN <<>>
  ELSE (IF Head(acts).kind = "Capture" THEN <<Call("capture", <<game_id, Head(acts).unit_id>>)>> ELSE <<>>)
       \o capture_calls(game_id, Tail(acts))

\* mutant: a capture call is emitted in place and an end_turn is kept
actions_to_calls_in_place(game_id, acts) ==
  LET RECURSIVE walk(_)
      walk(as) == IF as = <<>> THEN <<>>
                  ELSE (IF Head(as).kind = "Capture"
                        THEN capture_calls(game_id, <<Head(as)>>)
                        ELSE calls_in_order(game_id, <<Head(as)>>, FALSE)) \o walk(Tail(as))
  IN walk(acts)

actions_to_calls(game_id, acts) ==
  LET has_capture == \E i \in 1..Len(acts) : acts[i].kind = "Capture"
  IN calls_in_order(game_id, acts, has_capture) \o capture_calls(game_id, acts)

\* ------------------------------------------------------------------ main.py
\* a game as fetch_all_games reports it: open tells whether its name starts with
\* OPEN_GAME_PREFIX, bot_pid is what _detect_bot_side returns for it
Game(open, state, bot_pid) == [open |-> open, state |-> state, bot_pid |-> bot_pid]

GameThread(only_player) == [only_player |-> only_player, finished |-> FALSE]

\* Manager.__init__
Manager(max_games, selfplay) ==
  [max_games |-> max_games, selfplay |-> selfplay, game_threads |-> <<>>, known_finished |-> {}]

\* sum(1 for gt in self.game_threads.values() if not gt.only_player)
selfplay_count(game_threads) == Cardinality({g \in DOMAIN game_threads : game_threads[g].only_player = 0})

\* Manager._reap; a thread stops being alive only after finished is set
reap(m) ==
  With({g \in DOMAIN m.game_threads : m.game_threads[g].finished}, LAMBDA finished :
    [m EXCEPT !.game_threads = [g \in DOMAIN m.game_threads \ finished |-> m.game_threads[g]],
              !.known_finished = @ \cup finished])

\* fetch_active_games: the ids of the games in Playing state
fetch_active_games(t) == {g \in 1..Len(t.games) : t.games[g].state = "Playing"}

\* the games _discover starts a thread for
adopted(m, t) ==
  {g \in fetch_active_games(t) :
     /\ g \notin DOMAIN m.game_threads
     /\ g \notin m.known_finished
     /\ IF t.games[g].open THEN t.games[g].bot_pid # 0 ELSE m.selfplay}

\* Manager._discover; fetched is FALSE when fetch_active_games raises
discover(m, t, fetched) ==
  IF ~fetched THEN m
  ELSE With(adopted(m, t), LAMBDA new :
         [m EXCEPT !.game_threads =
            [g \in DOMAIN m.game_threads \cup new |->
               IF g \in DOMAIN m.game_threads THEN m.game_threads[g]
               ELSE GameThread(IF t.games[g].open THEN t.games[g].bot_pid ELSE 0)]])

\* a game created on the chain: the counter is its id
created(t, game) == [games |-> Append(t.games, game), count |-> t.count + 1]

\* Manager._ensure_open_game; ok is the outcome of the create transaction
ensure_open_game(t, ok) ==
  IF \E g \in 1..Len(t.games) : t.games[g].open /\ t.games[g].state = "Lobby" THEN t
  ELSE IF ok THEN created(t, Game(TRUE, "Lobby", 0))
  ELSE t

\* Manager._create_selfplay_game, when it succeeds: the game is created and joined
\* as player 2, its id read from the game counter, and its thread registered
create_selfplay_game(mt) ==
  With(created(mt.torii, Game(FALSE, "Playing", 0)), LAMBDA t :
    [manager |-> [mt.manager EXCEPT !.game_threads =
                    [g \in DOMAIN mt.manager.game_threads \cup {t.count} |->
                       IF g = t.count THEN GameThread(0) ELSE mt.manager.game_threads[g]]],
     torii |-> t])

\* the loop of Manager._tick that creates self-play games: n games are created,
\* where n < the number missing means that creation n + 1 returned False; failure
\* "join" is a failure after the create transaction, which leaves a game in Lobby
RECURSIVE create_selfplay_games(_, _, _)
create_selfplay_games(mt, n, failure) ==
  IF ~mt.manager.selfplay \/ selfplay_count(mt.manager.game_threads) >= mt.manager.max_games THEN mt
  ELSE IF n = 0
  THEN IF failure = "join"
       THEN [mt EXCEPT !.torii = created(mt.torii, Game(FALSE, "Lobby", 0))]
       ELSE mt
  ELSE create_selfplay_games(create_selfplay_game(mt), n - 1, failure)

\* TxQueue: the queue.Queue of batches, the batches the controller CLI is executing,
\* the batches executed so far in order, and the number of batches ever submitted
NoTxQueue == [queue |-> <<>>, executing |-> {}, executed |-> <<>>, submitted |-> 0]

\* a variant of Queue.get that takes the newest batch
get_newest(queue) == queue[Len(queue)]

\* queue.Queue.get: the oldest batch
get(queue) == Head(queue)

\* what is left in the queue once batch b is taken
without(queue, b) == SelectSeq(queue, LAMBDA x : x # b)

\* TxQueue.submit: the batch gets the next number and is put at the end of the queue
submit(q, owner) ==
  [q EXCEPT !.queue = Append(@, [id |-> q.submitted + 1, owner |-> owner]), !.submitted = @ + 1]

\* a thread that may submit: a GameThread after __init__, or the Manager (thread 0)
NewThread ==
  [pc |-> "idle", error_count |-> 0, finished |-> FALSE, abandoned |-> FALSE, batch |-> None, kind |-> "",
   ahead |-> FALSE, result_box |-> "", errors_in_a_row |-> 0]

\* submit_and_wait up to event.wait: the batch is enqueued and the thread waits for
\* its callback; ahead tells whether another batch was queued or running before it
waiting_for(th, q, kind) ==
  [th EXCEPT !.pc = "waiting", !.batch = q.submitted + 1, !.kind = kind, !.result_box = "",
             !.ahead = q.queue # <<>> \/ q.executing # {}]

\* a variant of event.wait without a timeout
may_time_out_never(th) == FALSE

\* event.wait(timeout=60) can end without the callback only if another batch was
\* ahead: execute_calls itself ends within the 45 s of its subprocess timeout
may_time_out(th) == th.ahead

\* a variant of GameThread._run that does not count the exception of a tick
after_tick_error_uncounted(th) == th

\* GameThread._run, lines 134-138: the exception of a tick is counted
after_tick_error(th) == [th EXCEPT !.error_count = @ + 1]

\* the caller is back from submit_and_wait; errors_in_a_row counts the most recent
\* batches of the thread that came back with an error, back to the last other result
returned(th, status) ==
  [th EXCEPT !.pc = "idle", !.batch = None, !.kind = "", !.ahead = FALSE, !.result_box = "",
             !.errors_in_a_row = IF status \in {"error", "not playing"} THEN @ + 1 ELSE 0]

\* GameThread._tick, lines 200-218, on the result of the turn's batch
after_result(th, status) ==
  With(returned(th, status), LAMBDA back :
    IF status \in {"error", "not playing"}
    THEN IF status = "not playing" THEN [back EXCEPT !.error_count = @ + 1, !.finished = TRUE]
         ELSE IF th.error_count + 1 >= 3
         THEN [back EXCEPT !.error_count = @ + 1, !.finished = TRUE, !.abandoned = TRUE]
         ELSE [back EXCEPT !.error_count = @ + 1]
    ELSE [back EXCEPT !.error_count = 0])

\* the return of a submit_and_wait whose result the caller does not count: the end of
\* turn of a side without units (lines 185-186), the batches of the Manager
after_uncounted(th, status) == returned(th, status)

\* ------------------------------------------------------------------ state
VARIABLES
  game_state,   \* the snapshot: [grid, units, buildings, info]
  player_id,    \* the side plan_turn plans for
  plan,         \* the local variables of plan_turn
  actions,      \* the action list plan_turn builds
  calls,        \* the calls actions_to_calls emits
  query,        \* a pathfinder call: [fn, start, goal, unit_type, occupied, max_range]
  reachable,    \* result of find_reachable for the query
  true_dist,    \* result of full_path_distance for the query
  pc,           \* position of the run
  manager,      \* the Manager object: [max_games, selfplay, game_threads, known_finished]
  torii,        \* the games the indexer reports: [games, count]
  best_path,    \* result of best_move_toward for the query
  twin,         \* a second snapshot and the focus order computed for it: [game_state, focus_order]
  tx_queue,     \* the TxQueue: [queue, executing, executed, submitted]
  threads       \* the threads that submit batches: thread -> [pc, error_count, finished, abandoned, batch, kind, ahead, result_box, errors_in_a_row]

vars == <<game_state, player_id, plan, actions, calls, query, reachable, true_dist, pc, manager, torii,
         best_path,
         twin,
         tx_queue, threads>>

\* ------------------------------------------------------------------ inputs
\* grids: grass, with mountains on M and trees on T
GridOf(M, T) == [c \in Cells |-> IF c \in M THEN TERRAIN_MOUNTAIN ELSE IF c \in T THEN TERRAIN_TREE ELSE TERRAIN_GRASS]

PathMountains == {<<1, 0>>, <<0, 1>>, <<1, 1>>, <<2, 1>>, <<1, 2>>}
PathGrids == {GridOf(M, {<<2, 0>>}) : M \in SUBSET PathMountains} \cup {GridOf({}, {})}
PathStarts == {<<0, 0>>, <<1, 1>>, <<2, 2>>}
PathBlocked == {<<1, 0>>, <<1, 1>>, <<2, 0>>}
PathGoals == {<<0, 0>>, <<1, 1>>, <<2, 1>>, <<3, 0>>, <<2, 3>>, <<4, 4>>}

\* plan_turn's locals before the call
NoPlan == [strat |-> RUSH, occupied |-> {}, already_targeted |-> <<>>, danger_map |-> <<>>, focus_order |-> <<>>,
           actionable |-> <<>>, flankers |-> <<>>, retreaters |-> <<>>, screeners |-> <<>>, attackers |-> <<>>,
           done |-> 0]

\* no manager runs, no game is known
NoManager == [max_games |-> 0, selfplay |-> FALSE, game_threads |-> <<>>, known_finished |-> {}]

NoTorii == [games |-> <<>>, count |-> 0]

\* no second snapshot is compared
NoTwin == [game_state |-> <<>>, focus_order |-> <<>>]

NoQuery == [fn |-> "", start |-> NoPos, goal |-> NoPos, unit_type |-> "", occupied |-> {}, max_range |-> None]

EmptyState(g) == [grid |-> g, units |-> <<>>, buildings |-> <<>>, info |-> [game_id |-> 1, round |-> 1]]

\* ------------------------------------------------------------------ pathfinder calls
InitPath ==
  /\ \E g \in PathGrids : game_state = EmptyState(g)
  /\ \/ \E s \in PathStarts, t \in UnitTypes, o \in SUBSET PathBlocked, r \in {None} \cup (0..MaxBudget) :
          query = [fn |-> "find_reachable", start |-> s, goal |-> s, unit_type |-> t, occupied |-> o, max_range |-> r]
     \/ \E g \in PathGoals, t \in UnitTypes :
          query = [fn |-> "full_path_distance", start |-> <<0, 0>>, goal |-> g, unit_type |-> t, occupied |-> {}, max_range |-> None]
     \/ \E s \in PathStarts, g \in PathGoals, t \in UnitTypes, o \in SUBSET PathBlocked :
          query = [fn |-> "best_move_toward", start |-> s, goal |-> g, unit_type |-> t, occupied |-> o \ {s}, max_range |-> None]
  /\ reachable = <<>>
  /\ true_dist = <<>>
  /\ player_id = 1
  /\ plan = NoPlan
  /\ actions = <<>>
  /\ calls = <<>>
  /\ pc = "idle"
  /\ manager = NoManager
  /\ torii = NoTorii
  /\ best_path = <<>>
  /\ twin = NoTwin
  /\ tx_queue = NoTxQueue
  /\ threads = <<>>

FindReachable ==
  /\ pc = "idle"
  /\ query.fn = "find_reachable"
  /\ reachable' = find_reachable(game_state.grid, query.start, query.unit_type, query.occupied, query.max_range)
  /\ pc' = "reached"
  /\ UNCHANGED <<game_state, player_id, plan, actions, calls, query, true_dist>>
  /\ UNCHANGED <<manager, torii>>
  /\ UNCHANGED <<best_path>>
  /\ UNCHANGED <<twin>>
  /\ UNCHANGED <<tx_queue, threads>>

FullPathDistance ==
  /\ pc = "idle"
  /\ query.fn = "full_path_distance"
  /\ true_dist' = full_path_distance(game_state.grid, query.start, query.goal, query.unit_type)
  /\ pc' = "measured"
  /\ UNCHANGED <<game_state, player_id, plan, actions, calls, query, reachable>>
  /\ UNCHANGED <<manager, torii>>
  /\ UNCHANGED <<best_path>>
  /\ UNCHANGED <<twin>>
  /\ UNCHANGED <<tx_queue, threads>>

BestMoveToward ==
  /\ pc = "idle"
  /\ query.fn = "best_move_toward"
  /\ best_path' = best_move_toward(game_state.grid, query.start, query.goal, query.unit_type, query.occupied)
  /\ pc' = "advised"
  /\ UNCHANGED <<game_state, player_id, plan, actions, calls, query, reachable, true_dist>>
  /\ UNCHANGED <<manager, torii>>
  /\ UNCHANGED <<twin>>
  /\ UNCHANGED <<tx_queue, threads>>

NextPath == FindReachable \/ FullPathDistance \/ BestMoveToward

SpecPath == InitPath /\ [][NextPath]_vars

\* ------------------------------------------------------------------ plan_turn
Unit(id, player, type, pos, hp, acted) ==
  [unit_id |-> id, player_id |-> player, unit_type |-> type, x |-> pos[1], y |-> pos[2], hp |-> hp,
   is_alive |-> hp > 0, last_acted_round |-> acted]

Building(pos, player) == [x |-> pos[1], y |-> pos[2], building_type |-> "HQ", player_id |-> player]

my_units == alive_units(game_state, player_id)
enemies == enemy_units(game_state, player_id)
opponent_id == IF player_id = 1 THEN 2 ELSE 1
enemy_hq == get_hq(game_state, opponent_id)
my_hq == get_hq(game_state, player_id)
actionable == SelectSeq(my_units, LAMBDA u : u.last_acted_round < game_state.info.round)
UnitIds == {game_state.units[i].unit_id : i \in 1..Len(game_state.units)}

\* the end of a turn as the specification words it: no EndTurn after a Capture
append_end_turn_unless_capture(acts) ==
  IF \E i \in 1..Len(acts) : acts[i].kind = "Capture" THEN acts ELSE Append(acts, EndTurnAction)

\* actions.append(EndTurnAction()) before each return (lines 140, 148, 165, 272)
append_end_turn(acts) == Append(acts, EndTurnAction)

\* lines 139-149: no living unit, or none that may still act this round
NothingToDo ==
  /\ pc = "start"
  /\ my_units = <<>> \/ actionable = <<>>
  /\ actions' = append_end_turn(actions)
  /\ pc' = "done"
  /\ UNCHANGED <<game_state, player_id, plan, calls, query, reachable, true_dist>>
  /\ UNCHANGED <<manager, torii>>
  /\ UNCHANGED <<best_path>>
  /\ UNCHANGED <<twin>>
  /\ UNCHANGED <<tx_queue, threads>>

\* the march if the eligible units were taken in the order of game_state.units
march_order_of_snapshot(units, hq) == units

\* lines 156-157: actionable.sort(key = Manhattan distance to the enemy HQ), a stable
\* sort, when there is an enemy HQ
march_order(units, hq) ==
  IF hq # NoPos
  THEN Vals(SortByKey([i \in 1..Len(units) |-> [key |-> <<manhattan(Pos(units[i]), hq)>>, val |-> units[i]]]))
  ELSE units

\* lines 143-157: no enemy alive; the units march in order of Manhattan distance to
\* the enemy HQ when there is one
StartCaptureMarch ==
  /\ pc = "start"
  /\ actionable # <<>>
  /\ enemies = <<>>
  /\ \E strat \in {pick_strategy_adaptive(game_state, player_id, d) : d \in Draws} :
     plan' = [NoPlan EXCEPT
       !.strat = strat,
       !.occupied = occupied_positions(game_state),
       !.already_targeted = [id \in UnitIds |-> 0],
       !.actionable = march_order(actionable, enemy_hq)]
  /\ pc' = "march"
  /\ UNCHANGED <<game_state, player_id, actions, calls, query, reachable, true_dist>>
  /\ UNCHANGED <<manager, torii>>
  /\ UNCHANGED <<best_path>>
  /\ UNCHANGED <<twin>>
  /\ UNCHANGED <<tx_queue, threads>>

\* the occupied set if a planned unit's move were not recorded
Moved_not_recorded(occupied, unit_pos, new_pos) == occupied

\* the occupied set after a unit has been planned
Moved(occupied, unit_pos, new_pos) ==
  IF new_pos # unit_pos THEN (occupied \ {unit_pos}) \cup {new_pos} ELSE occupied

\* the snapshot if the unit loop wrote a unit's new cell into its Unit object
snapshot_with_unit_moved(gs, unit, new_pos) ==
  [gs EXCEPT !.units = [i \in 1..Len(gs.units) |->
                          IF gs.units[i].unit_id = unit.unit_id
                          THEN [gs.units[i] EXCEPT !.x = new_pos[1], !.y = new_pos[2]]
                          ELSE gs.units[i]]]

\* the snapshot after a unit has been planned: the loops read unit.x, unit.y and the
\* other fields of the Unit objects they share with game_state.units and store to
\* none of them; the new cell goes to the local occupied set only
snapshot_after_unit(gs, unit, new_pos) == gs

\* what every unit step does with the result of its role planner
Apply(r, unit) ==
  IF r.raised
  THEN /\ pc' = "raised"
       /\ UNCHANGED <<game_state, plan, actions>>
  ELSE /\ actions' = actions \o r.actions
       /\ plan' = [plan EXCEPT !.occupied = Moved(plan.occupied, Pos(unit), r.new_pos),
                               !.already_targeted = r.already_targeted,
                               !.done = @ + 1]
       /\ game_state' = snapshot_after_unit(game_state, unit, r.new_pos)
       /\ UNCHANGED pc

\* lines 158-164: the next unit of the capture march
CaptureMarchUnit ==
  /\ pc = "march"
  /\ plan.done < Len(plan.actionable)
  /\ LET unit == plan.actionable[plan.done + 1]
     IN Apply(plan_capture_march(unit, Pos(unit), enemy_hq, game_state, plan.occupied, plan.already_targeted), unit)
  /\ UNCHANGED <<player_id, calls, query, reachable, true_dist>>
  /\ UNCHANGED <<manager, torii>>
  /\ UNCHANGED <<best_path>>
  /\ UNCHANGED <<twin>>
  /\ UNCHANGED <<tx_queue, threads>>

\* lines 152, 168-223 and 256-259: strategy, danger map, focus order and roles.  The
\* attackers are held in the order of phase 4: their sort reads only the snapshot and
\* the focus order
BuildContext ==
  /\ pc = "start"
  /\ actionable # <<>>
  /\ enemies # <<>>
  /\ \E strat \in {pick_strategy_adaptive(game_state, player_id, d) : d \in Draws} :
       With(build_danger_map(game_state, enemies), LAMBDA danger_map :
       With(IF strat.name = "Assassin"
            THEN assign_assassin_targets(enemies, game_state)
            ELSE assign_focus_targets(my_units, enemies, game_state, strat), LAMBDA focus_order :
       With(RoleGroups(game_state, actionable, enemies, enemy_hq, danger_map, strat), LAMBDA roles :
         plan' = [NoPlan EXCEPT
           !.strat = strat,
           !.occupied = occupied_positions(game_state),
           !.already_targeted = [id \in UnitIds |-> 0],
           !.danger_map = danger_map,
           !.focus_order = focus_order,
           !.flankers = roles.flankers,
           !.retreaters = roles.retreaters,
           !.screeners = roles.screeners,
           !.attackers = IF focus_order # <<>>
                         THEN Vals(SortByKey([i \in 1..Len(roles.attackers) |->
                                [key |-> <<manhattan(Pos(roles.attackers[i]), Pos(focus_order[1]))>>,
                                 val |-> roles.attackers[i]]]))
                         ELSE roles.attackers])))
  /\ pc' = "roles"
  /\ UNCHANGED <<game_state, player_id, actions, calls, query, reachable, true_dist>>
  /\ UNCHANGED <<manager, torii>>
  /\ UNCHANGED <<best_path>>
  /\ UNCHANGED <<twin>>
  /\ UNCHANGED <<tx_queue, threads>>

\* the units in the order the four phases take them
NFlank == Len(plan.flankers)
NRetreat == NFlank + Len(plan.retreaters)
NScreen == NRetreat + Len(plan.screeners)
NAttack == NScreen + Len(plan.attackers)

\* lines 225-233, phase 1
FlankerStep ==
  /\ pc = "roles"
  /\ plan.done < NFlank
  /\ LET unit == plan.flankers[plan.done + 1]
     IN Apply(plan_flanker(unit, Pos(unit), enemy_hq, enemies, game_state, plan.occupied, plan.danger_map,
                           plan.strat, plan.already_targeted), unit)
  /\ UNCHANGED <<player_id, calls, query, reachable, true_dist>>
  /\ UNCHANGED <<manager, torii>>
  /\ UNCHANGED <<best_path>>
  /\ UNCHANGED <<twin>>
  /\ UNCHANGED <<tx_queue, threads>>

\* lines 235-243, phase 2
RetreaterStep ==
  /\ pc = "roles"
  /\ NFlank <= plan.done /\ plan.done < NRetreat
  /\ LET unit == plan.retreaters[plan.done - NFlank + 1]
     IN Apply(plan_retreat(unit, Pos(unit), enemies, plan.danger_map, game_state, plan.occupied, my_hq,
                           plan.strat, plan.already_targeted), unit)
  /\ UNCHANGED <<player_id, calls, query, reachable, true_dist>>
  /\ UNCHANGED <<manager, torii>>
  /\ UNCHANGED <<best_path>>
  /\ UNCHANGED <<twin>>
  /\ UNCHANGED <<tx_queue, threads>>

\* lines 245-253, phase 3
ScreenerStep ==
  /\ pc = "roles"
  /\ NRetreat <= plan.done /\ plan.done < NScreen
  /\ LET unit == plan.screeners[plan.done - NRetreat + 1]
     IN Apply(plan_screener(unit, Pos(unit), enemies, my_units, game_state, plan.occupied,
                            plan.already_targeted, plan.danger_map, plan.strat), unit)
  /\ UNCHANGED <<player_id, calls, query, reachable, true_dist>>
  /\ UNCHANGED <<manager, torii>>
  /\ UNCHANGED <<best_path>>
  /\ UNCHANGED <<twin>>
  /\ UNCHANGED <<tx_queue, threads>>

\* lines 261-270, phase 4
AttackerStep ==
  /\ pc = "roles"
  /\ NScreen <= plan.done /\ plan.done < NAttack
  /\ LET unit == plan.attackers[plan.done - NScreen + 1]
     IN Apply(plan_combat_unit(unit, Pos(unit), enemies, plan.focus_order, game_state, plan.occupied,
                               plan.already_targeted, plan.danger_map, plan.strat), unit)
  /\ UNCHANGED <<player_id, calls, query, reachable, true_dist>>
  /\ UNCHANGED <<manager, torii>>
  /\ UNCHANGED <<best_path>>
  /\ UNCHANGED <<twin>>
  /\ UNCHANGED <<tx_queue, threads>>

\* lines 165-166 and 272-273: the list ends with EndTurn and is returned
EndTurn ==
  /\ \/ pc = "march" /\ plan.done = Len(plan.actionable)
     \/ pc = "roles" /\ plan.done = NAttack
  /\ actions' = append_end_turn(actions)
  /\ pc' = "done"
  /\ UNCHANGED <<game_state, player_id, plan, calls, query, reachable, true_dist>>
  /\ UNCHANGED <<manager, torii>>
  /\ UNCHANGED <<best_path>>
  /\ UNCHANGED <<twin>>
  /\ UNCHANGED <<tx_queue, threads>>

\* execute_turn: the returned list is turned into calls
ActionsToCalls ==
  /\ pc = "done"
  /\ calls' = actions_to_calls(game_state.info.game_id, actions)
  /\ pc' = "called"
  /\ UNCHANGED <<game_state, player_id, plan, actions, query, reachable, true_dist>>
  /\ UNCHANGED <<manager, torii>>
  /\ UNCHANGED <<best_path>>
  /\ UNCHANGED <<twin>>
  /\ UNCHANGED <<tx_queue, threads>>

\* ------------------------------------------------------------------ snapshots
\* the battlefield: the two headquarters face each other across the middle row, a
\* mountain band closes the lower middle, trees stand in two corners
HQ1 == <<0, 2>>
HQ2 == <<Width - 1, 2>>
BattleGrid ==
  [c \in Cells |-> IF c \in {HQ1, HQ2} THEN TERRAIN_HQ
                   ELSE IF c \in {<<2, 3>>, <<2, 4>>} THEN TERRAIN_MOUNTAIN
                   ELSE IF c \in {<<0, 0>>, <<3, 3>>} THEN TERRAIN_TREE
                   ELSE TERRAIN_GRASS]

Snapshot(units, buildings, round) ==
  [grid |-> BattleGrid, units |-> units, buildings |-> buildings, info |-> [game_id |-> 1, round |-> round]]

BothHQ == <<Building(HQ1, 1), Building(HQ2, 2)>>

\* snapshots of the guard clauses: no unit of the side, none alive, none left to act
GuardSnapshots ==
  {Snapshot(us, BothHQ, 1) :
     us \in {<<Unit(7, 2, INFANTRY, <<2, 2>>, 3, 0)>>,
             <<Unit(1, 1, INFANTRY, <<1, 2>>, 0, 0), Unit(7, 2, INFANTRY, <<2, 2>>, 3, 0)>>,
             <<Unit(1, 1, INFANTRY, <<1, 2>>, 3, 1), Unit(7, 2, INFANTRY, <<2, 2>>, 3, 0)>>,
             <<Unit(1, 1, TANK, <<1, 2>>, 5, 1)>>}}

\* snapshots of the capture march: no enemy is alive; the enemy HQ may be missing
MarchSnapshots ==
  {Snapshot(<<Unit(1, 1, t, p, 3, 0)>> \o second \o <<Unit(7, 2, INFANTRY, <<3, 1>>, 0, 0)>>, bs, 1) :
     t \in {INFANTRY, RANGER},
     p \in {<<Width - 3, 2>>, HQ2, <<0, 0>>, <<1, 4>>},
     second \in {<<>>, <<Unit(2, 1, TANK, <<Width - 2, 2>>, 5, 0)>>, <<Unit(2, 1, TANK, <<Width - 1, 1>>, 4, 0)>>,
                 <<Unit(2, 1, INFANTRY, <<Width - 2, 2>>, 2, 0)>>},
     bs \in {BothHQ, <<Building(HQ1, 1)>>}}

\* the squads of side 1 and the parties of side 2 that meet in a skirmish; the Tank
\* of the last squad has acted already in every round played
Squads ==
  {<<Unit(1, 1, INFANTRY, <<1, 2>>, 3, 0), Unit(2, 1, INFANTRY, <<3, 2>>, 3, 0), Unit(3, 1, INFANTRY, <<2, 1>>, h, 0)>> :
     h \in {1, 3}}
  \cup {<<Unit(1, 1, TANK, <<0, 0>>, h, 0), Unit(2, 1, RANGER, <<0, 3>>, 3, 0)>> : h \in {3, 5}}
  \cup {<<Unit(1, 1, RANGER, <<0, 1>>, 3, 0), Unit(2, 1, TANK, <<1, 2>>, ht, 0), Unit(3, 1, INFANTRY, <<1, 1>>, hi, 0)>> :
          ht \in {2, 5}, hi \in {1, 3}}
  \cup {<<Unit(1, 1, INFANTRY, <<1, 2>>, 3, 0), Unit(2, 1, INFANTRY, <<3, 2>>, 3, 0), Unit(3, 1, INFANTRY, <<2, 1>>, 1, 0),
          Unit(4, 1, TANK, <<0, 4>>, 5, 12)>>}

Parties ==
  {<<Unit(7, 2, INFANTRY, <<2, 2>>, h, 0)>> : h \in {2, 3}}
  \cup {<<Unit(7, 2, TANK, <<3, 0>>, 5, 0)>>}
  \cup {<<Unit(7, 2, INFANTRY, <<2, 2>>, h, 0), Unit(8, 2, RANGER, <<4, 3>>, 3, 0)>> : h \in {2, 3}}

\* round 12 opens the late-game rule of pick_strategy_adaptive
SkirmishSnapshots == {Snapshot(sq \o pa, BothHQ, r) : sq \in Squads, pa \in Parties, r \in {1, 12}}

\* an army of seven against two: seen from side 1 the "way ahead" rule and the ranger
\* fortress apply, seen from side 2 the "way behind" rule
Army ==
  <<Unit(1, 1, INFANTRY, <<1, 0>>, 3, 0), Unit(2, 1, INFANTRY, <<1, 2>>, 3, 0), Unit(3, 1, INFANTRY, <<1, 4>>, 3, 0),
    Unit(4, 1, INFANTRY, <<0, 3>>, 2, 0), Unit(5, 1, RANGER, <<0, 1>>, 3, 0), Unit(6, 1, RANGER, <<0, 4>>, 3, 0),
    Unit(7, 1, TANK, <<1, 1>>, 5, 0)>>

ArmySnapshots ==
  {Snapshot(Army \o pa, BothHQ, 1) :
     pa \in {<<Unit(8, 2, INFANTRY, <<3, 2>>, 3, 0), Unit(9, 2, TANK, <<4, 1>>, 5, 0)>>,
             <<Unit(8, 2, INFANTRY, <<2, 2>>, 3, 0), Unit(9, 2, RANGER, <<4, 3>>, 2, 0)>>,
             <<Unit(8, 2, TANK, <<2, 1>>, 4, 0), Unit(9, 2, INFANTRY, <<0, 2>>, 1, 0)>>}}

\* a brawl: four units of side 1 within reach of two enemies of varying health
BrawlSnapshots ==
  {Snapshot(<<Unit(1, 1, TANK, <<2, 1>>, 5, 0), Unit(2, 1, INFANTRY, <<1, 2>>, 3, 0),
              Unit(3, 1, INFANTRY, <<3, 2>>, 2, 0), Unit(4, 1, RANGER, <<0, 2>>, 3, 0),
              Unit(7, 2, INFANTRY, <<2, 2>>, h7, 0), Unit(8, 2, TANK, <<3, 1>>, h8, 0)>>, BothHQ, 1) :
     h7 \in 1..3, h8 \in {2, 4, 5}}

\* a wall of mountains stands before the enemy HQ: the walk around it is longer
\* than the Manhattan distance
WallGrid ==
  [c \in Cells |-> IF c \in {HQ1, HQ2} THEN TERRAIN_HQ
                   ELSE IF c \in {<<Width - 2, 1>>, <<Width - 2, 2>>, <<Width - 2, 3>>} THEN TERRAIN_MOUNTAIN
                   ELSE TERRAIN_GRASS]

\* snapshots of a capture march around the wall
DetourSnapshots ==
  {[Snapshot(<<Unit(1, 1, t1, <<Width - 3, 2>>, 3, 0), Unit(2, 1, t2, <<Width - 2, 0>>, h, 0),
               Unit(7, 2, INFANTRY, <<3, 1>>, 0, 0)>>, BothHQ, 1) EXCEPT !.grid = WallGrid] :
     t1 \in {RANGER, INFANTRY}, t2 \in {RANGER, TANK}, h \in {2, 3}}

\* a raid: an Infantry next to or on the enemy HQ, far from the one enemy alive
RaidSnapshots ==
  {Snapshot(<<Unit(1, 1, INFANTRY, p, 3, 0), Unit(2, 1, INFANTRY, <<1, 3>>, 3, 0),
              Unit(7, 2, INFANTRY, <<0, 4>>, 3, 0)>>, BothHQ, 1) :
     p \in {<<Width - 2, 2>>, HQ2}}

Init ==
  /\ \/ /\ game_state \in GuardSnapshots \cup MarchSnapshots \cup DetourSnapshots \cup SkirmishSnapshots
                          \cup BrawlSnapshots \cup RaidSnapshots
        /\ player_id = 1
     \/ /\ game_state \in ArmySnapshots
        /\ player_id \in {1, 2}
  /\ plan = NoPlan
  /\ actions = <<>>
  /\ calls = <<>>
  /\ query = NoQuery
  /\ reachable = <<>>
  /\ true_dist = <<>>
  /\ pc = "start"
  /\ manager = NoManager
  /\ torii = NoTorii
  /\ best_path = <<>>
  /\ twin = NoTwin
  /\ tx_queue = NoTxQueue
  /\ threads = <<>>

Next ==
  \/ NothingToDo
  \/ StartCaptureMarch
  \/ CaptureMarchUnit
  \/ BuildContext
  \/ FlankerStep
  \/ RetreaterStep
  \/ ScreenerStep
  \/ AttackerStep
  \/ EndTurn
  \/ ActionsToCalls

Spec == Init /\ [][Next]_vars

\* ------------------------------------------------------------------ actions_to_calls on any list
\* the actions a list handed to actions_to_calls is made of
ExecActions ==
  {MoveAction(1, <<<<1, 0>>, <<2, 0>>>>), MoveAction(2, <<<<0, 1>>>>), AttackAction(1, 7), AttackAction(2, 8),
   CaptureAction(1), CaptureAction(2), WaitAction(1), EndTurnAction}

\* every list of at most n elements of S
Lists(S, n) == UNION {[1..k -> S] : k \in 0..n}

InitExec ==
  /\ game_state = EmptyState(GridOf({}, {}))
  /\ player_id = 1
  /\ plan = NoPlan
  /\ actions \in Lists(ExecActions, MaxActions)
  /\ calls = <<>>
  /\ query = NoQuery
  /\ reachable = <<>>
  /\ true_dist = <<>>
  /\ pc = "done"
  /\ manager = NoManager
  /\ torii = NoTorii
  /\ best_path = <<>>
  /\ twin = NoTwin
  /\ tx_queue = NoTxQueue
  /\ threads = <<>>

NextExec == ActionsToCalls

SpecExec == InitExec /\ [][NextExec]_vars

\* ------------------------------------------------------------------ pick_strategy_adaptive on any roster
\* the n-th cell of the board, row by row
CellNo(n) == <<n % Width, n \div Width>>

\* ni Infantry, nr Rangers and nt Tanks of a side at full health, on the cells after base
Roster(player, ni, nr, nt, base) ==
  [k \in 1..(ni + nr + nt) |->
     With(IF k <= ni THEN INFANTRY ELSE IF k <= ni + nr THEN RANGER ELSE TANK, LAMBDA t :
       Unit(base + k, player, t, CellNo(base + k), UNIT_HP[t], 0))]

\* a unit of side 2 that has been destroyed
Fallen(base) == Unit(base + 1, 2, INFANTRY, CellNo(base + 1), 0, 0)

InitStrategy ==
  /\ \E ni, nr \in 0..MaxOwn, nt \in 0..1, ei \in 0..MaxFoes, er, et, fallen \in 0..1, r \in {1, 12} :
       game_state = Snapshot(Roster(1, ni, nr, nt, 0) \o Roster(2, ei, er, et, ni + nr + nt)
                             \o (IF fallen = 1 THEN <<Fallen(ni + nr + nt + ei + er + et)>> ELSE <<>>), BothHQ, r)
  /\ player_id = 1
  /\ plan = NoPlan
  /\ actions = <<>>
  /\ calls = <<>>
  /\ query = NoQuery
  /\ reachable = <<>>
  /\ true_dist = <<>>
  /\ pc = "pick"
  /\ manager = NoManager
  /\ torii = NoTorii
  /\ best_path = <<>>
  /\ twin = NoTwin
  /\ tx_queue = NoTxQueue
  /\ threads = <<>>

\* a call of pick_strategy_adaptive: the draws of its random.Random are any outcomes
PickStrategyAdaptive ==
  /\ pc = "pick"
  /\ \E d \in Draws : plan' = [plan EXCEPT !.strat = pick_strategy_adaptive(game_state, player_id, d)]
  /\ pc' = "picked"
  /\ UNCHANGED <<game_state, player_id, actions, calls, query, reachable, true_dist>>
  /\ UNCHANGED <<manager, torii>>
  /\ UNCHANGED <<best_path>>
  /\ UNCHANGED <<twin>>
  /\ UNCHANGED <<tx_queue, threads>>

NextStrategy == PickStrategyAdaptive

SpecStrategy == InitStrategy /\ [][NextStrategy]_vars

\* ------------------------------------------------------------------ the Assassin focus order on two snapshots
\* the cells the enemies of a snapshot stand on, in two layouts
Layouts == {<<<<2, 2>>, <<3, 0>>, <<4, 3>>>>, <<<<4, 4>>, <<3, 1>>, <<1, 0>>>>}

HitPoints == {1, 3}

\* n enemies with ids 7.. of the given types, hit points and cells, facing one Tank
Foes(types, hps, cells) ==
  Snapshot(<<Unit(1, 1, TANK, <<0, 2>>, 5, 0)>>
           \o [k \in 1..Len(types) |-> Unit(6 + k, 2, types[k], cells[k], hps[k], 0)], BothHQ, 12)

\* two snapshots whose enemies have the same ids and types
InitAssassin ==
  /\ \E n \in 2..3 : \E types \in [1..n -> UnitTypes], hps, twin_hps \in [1..n -> HitPoints],
                        cells, twin_cells \in Layouts :
       /\ game_state = Foes(types, hps, cells)
       /\ twin = [game_state |-> Foes(types, twin_hps, twin_cells), focus_order |-> <<>>]
  /\ player_id = 1
  /\ plan = NoPlan
  /\ actions = <<>>
  /\ calls = <<>>
  /\ query = NoQuery
  /\ reachable = <<>>
  /\ true_dist = <<>>
  /\ pc = "assign"
  /\ manager = NoManager
  /\ torii = NoTorii
  /\ best_path = <<>>
  /\ tx_queue = NoTxQueue
  /\ threads = <<>>

\* plan_turn, lines 171-172, under the Assassin preset, for each of the two snapshots
AssignAssassinTargets ==
  /\ pc = "assign"
  /\ plan' = [plan EXCEPT !.strat = ASSASSIN, !.focus_order = assign_assassin_targets(enemies, game_state)]
  /\ twin' = [twin EXCEPT !.focus_order = assign_assassin_targets(enemy_units(twin.game_state, player_id),
                                                                  twin.game_state)]
  /\ pc' = "assigned"
  /\ UNCHANGED <<game_state, player_id, actions, calls, query, reachable, true_dist>>
  /\ UNCHANGED <<manager, torii>>
  /\ UNCHANGED <<best_path>>
  /\ UNCHANGED <<tx_queue, threads>>

NextAssassin == AssignAssassinTargets

SpecAssassin == InitAssassin /\ [][NextAssassin]_vars

\* ------------------------------------------------------------------ the transaction queue
\* thread 0 is the Manager, the others are GameThreads
GameIds == {1, 2}
ThreadIds == {0} \cup GameIds

\* what execute_calls returns; "not playing" is an error whose message says so
Statuses == {"success", "error", "not playing"}

InitTx ==
  /\ tx_queue = NoTxQueue
  /\ threads = [t \in ThreadIds |-> NewThread]
  /\ game_state = EmptyState(GridOf({}, {}))
  /\ player_id = 1
  /\ plan = NoPlan
  /\ actions = <<>>
  /\ calls = <<>>
  /\ query = NoQuery
  /\ reachable = <<>>
  /\ true_dist = <<>>
  /\ pc = "tx"
  /\ manager = NoManager
  /\ torii = NoTorii
  /\ best_path = <<>>
  /\ twin = NoTwin

TxUnchanged ==
  UNCHANGED <<game_state, player_id, plan, actions, calls, query, reachable, true_dist, pc, manager, torii,
              best_path, twin>>

\* GameThread._tick raises (a failed state fetch, an exception of the planner); _run
\* counts it
TickRaises ==
  /\ \E t \in GameIds :
       /\ threads[t].pc = "idle" /\ ~threads[t].finished
       /\ threads[t].error_count < MaxErrors
       /\ threads' = [threads EXCEPT ![t] = after_tick_error(@)]
  /\ UNCHANGED tx_queue
  /\ TxUnchanged

\* GameThread._tick, lines 149-154: the game is Finished
TickFindsGameFinished ==
  /\ \E t \in GameIds :
       /\ threads[t].pc = "idle" /\ ~threads[t].finished
       /\ threads' = [threads EXCEPT ![t].finished = TRUE]
  /\ UNCHANGED tx_queue
  /\ TxUnchanged

\* GameThread._tick up to submit_and_wait: the batch of a planned turn (lines 189-198)
\* or the end of turn of a side without units (lines 183-186)
TickSubmits ==
  /\ tx_queue.submitted < MaxBatches
  /\ \E t \in GameIds, kind \in {"turn", "pass"} :
       /\ threads[t].pc = "idle" /\ ~threads[t].finished
       /\ threads' = [threads EXCEPT ![t] = waiting_for(@, tx_queue, kind)]
       /\ tx_queue' = submit(tx_queue, t)
  /\ TxUnchanged

\* Manager._ensure_open_game and _create_selfplay_game up to submit_and_wait
ManagerSubmits ==
  /\ tx_queue.submitted < MaxBatches
  /\ threads[0].pc = "idle"
  /\ threads' = [threads EXCEPT ![0] = waiting_for(@, tx_queue, "create")]
  /\ tx_queue' = submit(tx_queue, 0)
  /\ TxUnchanged

\* TxQueue._run, lines 80-81: the worker takes a batch and starts execute_calls
TxTakes ==
  /\ tx_queue.queue # <<>>
  /\ tx_queue.executing = {}
  /\ tx_queue' = [tx_queue EXCEPT !.queue = without(@, get(tx_queue.queue)),
                                  !.executing = {get(tx_queue.queue)}]
  /\ UNCHANGED threads
  /\ TxUnchanged

\* TxQueue._run, lines 81-86: execute_calls returns and the callback stores the result
\* in the result box of the call that submitted the batch, if that call still waits
TxExecuted ==
  /\ \E b \in tx_queue.executing, status \in Statuses :
       /\ tx_queue' = [tx_queue EXCEPT !.executing = @ \ {b}, !.executed = Append(@, b.id)]
       /\ threads' = [threads EXCEPT ![b.owner] =
                        IF @.pc = "waiting" /\ @.batch = b.id THEN [@ EXCEPT !.result_box = status] ELSE @]
  /\ TxUnchanged

\* submit_and_wait returns the result of the callback to its caller
SubmitAndWaitReturns ==
  /\ \E t \in ThreadIds :
       /\ threads[t].pc = "waiting" /\ threads[t].result_box # ""
       /\ threads' = [threads EXCEPT ![t] = IF @.kind = "turn" THEN after_result(@, @.result_box)
                                                               ELSE after_uncounted(@, @.result_box)]
  /\ UNCHANGED tx_queue
  /\ TxUnchanged

\* submit_and_wait, lines 74-75: event.wait ends at its timeout and the caller gets
\* the status "timeout"
SubmitAndWaitTimesOut ==
  /\ \E t \in ThreadIds :
       /\ threads[t].pc = "waiting" /\ threads[t].result_box = ""
       /\ may_time_out(threads[t])
       /\ threads' = [threads EXCEPT ![t] = IF @.kind = "turn" THEN after_result(@, "timeout")
                                                               ELSE after_uncounted(@, "timeout")]
  /\ UNCHANGED tx_queue
  /\ TxUnchanged

NextTx ==
  \/ TickRaises
  \/ TickFindsGameFinished
  \/ TickSubmits
  \/ ManagerSubmits
  \/ TxTakes
  \/ TxExecuted
  \/ SubmitAndWaitReturns
  \/ SubmitAndWaitTimesOut

SpecTx == InitTx /\ [][NextTx]_vars

\* ------------------------------------------------------------------ the manager
\* the Manager after construction, before its first tick; no game exists yet
InitManager ==
  /\ \E k \in 1..MaxGamesLimit, sp \in BOOLEAN : manager = Manager(k, sp)
  /\ torii = NoTorii
  /\ game_state = EmptyState(GridOf({}, {}))
  /\ player_id = 1
  /\ plan = NoPlan
  /\ actions = <<>>
  /\ calls = <<>>
  /\ query = NoQuery
  /\ reachable = <<>>
  /\ true_dist = <<>>
  /\ pc = "manager"
  /\ best_path = <<>>
  /\ twin = NoTwin
  /\ tx_queue = NoTxQueue
  /\ threads = <<>>

\* Manager._tick: reap, discover, keep an open game, create self-play games
ManagerTick ==
  /\ pc = "manager"
  /\ \E fetched, ok \in BOOLEAN, n \in 0..MaxGamesLimit, failure \in {"create", "join"} :
       With(create_selfplay_games([manager |-> discover(reap(manager), torii, fetched),
                                   torii |-> ensure_open_game(torii, ok)], n, failure), LAMBDA mt :
         /\ mt.torii.count <= MaxGameId
         /\ manager' = mt.manager
         /\ torii' = mt.torii)
  /\ UNCHANGED <<game_state, player_id, plan, actions, calls, query, reachable, true_dist, pc>>
  /\ UNCHANGED <<best_path>>
  /\ UNCHANGED <<twin>>
  /\ UNCHANGED <<tx_queue, threads>>

\* GameThread._tick sets finished: the game is Finished, or it is given up after
\* "Game not playing" or three errors in a row
GameThreadFinishes ==
  /\ pc = "manager"
  /\ \E g \in DOMAIN manager.game_threads :
       /\ ~manager.game_threads[g].finished
       /\ manager' = [manager EXCEPT !.game_threads[g].finished = TRUE]
  /\ UNCHANGED <<game_state, player_id, plan, actions, calls, query, reachable, true_dist, pc, torii>>
  /\ UNCHANGED <<best_path>>
  /\ UNCHANGED <<twin>>
  /\ UNCHANGED <<tx_queue, threads>>

\* the chain ends a game
GameOver ==
  /\ pc = "manager"
  /\ \E g \in 1..Len(torii.games) :
       /\ torii.games[g].state = "Playing"
       /\ torii' = [torii EXCEPT !.games[g].state = "Finished"]
  /\ UNCHANGED <<game_state, player_id, plan, actions, calls, query, reachable, true_dist, pc, manager>>
  /\ UNCHANGED <<best_path>>
  /\ UNCHANGED <<twin>>
  /\ UNCHANGED <<tx_queue, threads>>

\* a challenger joins an open game of the bot, which is player 1 of it
ChallengerJoins ==
  /\ pc = "manager"
  /\ \E g \in 1..Len(torii.games) :
       /\ torii.games[g].open /\ torii.games[g].state = "Lobby"
       /\ torii' = [torii EXCEPT !.games[g] = Game(TRUE, "Playing", 1)]
  /\ UNCHANGED <<game_state, player_id, plan, actions, calls, query, reachable, true_dist, pc, manager>>
  /\ UNCHANGED <<best_path>>
  /\ UNCHANGED <<twin>>
  /\ UNCHANGED <<tx_queue, threads>>

\* other accounts start a game on the chain; the bot is not a player of it
OutsiderStartsGame ==
  /\ pc = "manager"
  /\ torii.count < MaxGameId
  /\ \E open \in BOOLEAN : torii' = created(torii, Game(open, "Playing", 0))
  /\ UNCHANGED <<game_state, player_id, plan, actions, calls, query, reachable, true_dist, pc, manager>>
  /\ UNCHANGED <<best_path>>
  /\ UNCHANGED <<twin>>
  /\ UNCHANGED <<tx_queue, threads>>

\* the process is started again: main() builds a new Manager, the chain is as it was
Restart ==
  /\ pc = "manager"
  /\ manager.game_threads # <<>>
  /\ manager' = Manager(manager.max_games, manager.selfplay)
  /\ UNCHANGED <<game_state, player_id, plan, actions, calls, query, reachable, true_dist, pc, torii>>
  /\ UNCHANGED <<best_path>>
  /\ UNCHANGED <<twin>>
  /\ UNCHANGED <<tx_queue, threads>>

NextManager ==
  \/ ManagerTick
  \/ GameThreadFinishes
  \/ GameOver
  \/ ChallengerJoins
  \/ OutsiderStartsGame
  \/ Restart

SpecManager == InitManager /\ [][NextManager]_vars

\* ------------------------------------------------------------------ reference: cheapest walks
NoWalk == 2 * Width * Height + 1

\* one round of relaxation of the walk costs d
Relax(grid, start, unit_type, occupied, d) ==
  [c \in Cells |->
     IF c = start THEN 0
     ELSE IF move_cost(grid[c], unit_type) = None \/ c \in occupied THEN NoWalk
     ELSE SetMin({NoWalk} \cup {d[n] + move_cost(grid[c], unit_type) : n \in neighbors(c)})]

RECURSIVE RelaxAll(_, _, _, _, _)
RelaxAll(grid, start, unit_type, occupied, d) ==
  LET d2 == Relax(grid, start, unit_type, occupied, d)
  IN IF d2 = d THEN d ELSE RelaxAll(grid, start, unit_type, occupied, d2)

\* least total entry cost of a 4-connected walk from start to each cell that enters
\* only cells passable for the unit type and outside occupied (NoWalk: no such walk)
MinWalk(grid, start, unit_type, occupied) ==
  RelaxAll(grid, start, unit_type, occupied, [c \in Cells |-> IF c = start THEN 0 ELSE NoWalk])

Budget == IF query.max_range = None THEN MOVE_RANGE[query.unit_type] ELSE query.max_range

\* ------------------------------------------------------------------ claims: pathfinder
Reached == pc = "reached"
Measured == pc = "measured"

\* C5: for every cell other than the start, find_reachable returns the least total
\* entry cost over walks from the start through passable, unblocked cells; every
\* returned cost is at most the budget (inclusive), and every cell whose least cost
\* is at most the budget is returned.
C5_ReachableIsCheapestWithinBudget ==
  Reached =>
    LET ref == MinWalk(game_state.grid, query.start, query.unit_type, query.occupied)
    IN \A c \in Cells \ {query.start} :
         /\ c \in Keys(reachable) => Get(reachable, c).cost = ref[c] /\ Get(reachable, c).cost <= Budget
         /\ ref[c] <= Budget => c \in Keys(reachable)

\* C5 witness: a call with a blocked cell and a mountain detour that returns a cell
\* costing exactly the budget and leaves out a cell costing one more
C5_Witness ==
  /\ Reached
  /\ query.occupied # {}
  /\ LET ref == MinWalk(game_state.grid, query.start, query.unit_type, query.occupied)
     IN /\ \E c \in Keys(reachable) : Get(reachable, c).cost = Budget /\ Get(reachable, c).cost > manhattan(c, query.start)
        /\ \E c \in Cells : ref[c] = Budget + 1 /\ c \notin Keys(reachable)

\* C6 as stated: the start cell is never a key of the result of find_reachable
C6_StartNeverReturned == Reached => query.start \notin Keys(reachable)

\* C6 amended: the start cell is always a key of the result of find_reachable, the
\* first one, with cost 0 and an empty path, and it is the only key with an empty path.
C6_StartReturnedWithEmptyPath ==
  Reached =>
    /\ Len(reachable) >= 1
    /\ reachable[1] = [cost |-> 0, pos |-> query.start, path |-> <<>>]
    /\ \A i \in 2..Len(reachable) : reachable[i].pos # query.start /\ reachable[i].path # <<>>

\* C6 witness: a call that returns the start and other cells
C6_Witness == Reached /\ Len(reachable) > 3 /\ query.start \in Keys(reachable)

\* the scenario of C7: all grass, nothing blocked, start (0,0), default budget of a
\* unit type whose movement range is 2
C7_Scenario ==
  /\ Reached
  /\ \A c \in Cells : game_state.grid[c] = TERRAIN_GRASS
  /\ query.start = <<0, 0>>
  /\ query.occupied = {}
  /\ query.max_range = None
  /\ MOVE_RANGE[query.unit_type] = 2

\* C7 as stated: in the scenario the reachable set has exactly 12 cells, the cells at
\* Manhattan distance 1 or 2 from the start, each with cost equal to that distance
C7_TwelveCells ==
  C7_Scenario =>
    /\ Cardinality(Keys(reachable) \ {query.start}) = 12
    /\ \A c \in Keys(reachable) \ {query.start} : Get(reachable, c).cost = manhattan(c, query.start)

\* C7 amended: in the scenario the reachable set holds, besides the start itself
\* (cost 0), exactly the 5 cells of the grid at Manhattan distance 1 or 2 from the
\* corner start, each with cost equal to its Manhattan distance.
C7_FiveCellsFromCorner ==
  C7_Scenario =>
    /\ Keys(reachable) \ {query.start} = {c \in Cells : manhattan(c, query.start) \in {1, 2}}
    /\ Cardinality(Keys(reachable) \ {query.start}) = 5
    /\ \A c \in Keys(reachable) : Get(reachable, c).cost = manhattan(c, query.start)

\* C7 witness: the scenario has run
C7_Witness == C7_Scenario /\ Len(reachable) > 1

\* dist(x, y): the value full_path_distance with goal y assigns to x (None: no value)
DistTo(x, y) ==
  LET d == IF y = query.goal THEN true_dist
           ELSE full_path_distance(game_state.grid, query.start, y, query.unit_type)
  IN IF x \in Keys(d) THEN Get(d, x).cost ELSE None

\* C10: for all cells a, b with defined values, dist(a,goal) <= dist(a,b) + dist(b,goal)
C10_TriangleInequality ==
  Measured =>
    \A b \in Keys(true_dist) :
      LET db == full_path_distance(game_state.grid, query.start, b, query.unit_type)
      IN \A a \in Keys(true_dist) \cap Keys(db) :
           Get(true_dist, a).cost <= Get(db, a).cost + Get(true_dist, b).cost

\* C10 witness: a map with mountains where some a, b give a strict inequality and
\* some other a, b (b off the goal and off a) give equality
C10_Witness ==
  /\ Measured
  /\ \E c \in Cells : game_state.grid[c] = TERRAIN_MOUNTAIN
  /\ \E a, b \in Keys(true_dist) \ {query.goal} :
       /\ a # b
       /\ DistTo(a, b) # None
       /\ DistTo(a, query.goal) = DistTo(a, b) + DistTo(b, query.goal)
  /\ \E a, b \in Keys(true_dist) \ {query.goal} :
       /\ DistTo(a, b) # None
       /\ DistTo(a, query.goal) < DistTo(a, b) + DistTo(b, query.goal)

\* ------------------------------------------------------------------ claims: plan_turn and actions_to_calls
\* plan_turn has returned its list
Returned == pc \in {"done", "called"}

HasCapture(acts) == \E i \in 1..Len(acts) : acts[i].kind = "Capture"

EndTurns(acts) == {i \in 1..Len(acts) : acts[i].kind = "EndTurn"}

\* the snapshot of the example: no enemy alive, one Infantry of the side, two cells
\* from the enemy HQ
C1_Scenario ==
  /\ enemies = <<>>
  /\ Len(my_units) = 1
  /\ actionable = my_units
  /\ my_units[1].unit_type = INFANTRY
  /\ enemy_hq # NoPos
  /\ manhattan(Pos(my_units[1]), enemy_hq) = 2

\* C1 as stated: in every list returned by plan_turn a Capture, if present, is the
\* last action and the list has no EndTurn; in the example the list is exactly
\* [Move(path of length 2), Capture]
C1_CaptureLastWithoutEndTurn ==
  Returned =>
    /\ HasCapture(actions) => actions[Len(actions)].kind = "Capture" /\ EndTurns(actions) = {}
    /\ C1_Scenario =>
         /\ Len(actions) = 2
         /\ actions[1].kind = "Move" /\ Len(actions[1].path) = 2
         /\ actions[2].kind = "Capture"

\* C1 amended: every list returned by plan_turn that holds a Capture still ends with
\* EndTurn, its only EndTurn, so a Capture is never the last action; in the example
\* the list is exactly [Move(path of length 2 ending on the HQ), Capture, EndTurn]
C1_CaptureFollowedByEndTurn ==
  Returned =>
    /\ HasCapture(actions) =>
         /\ EndTurns(actions) = {Len(actions)}
         /\ \A i \in 1..Len(actions) : actions[i].kind = "Capture" => i < Len(actions)
    /\ C1_Scenario =>
         /\ Len(actions) = 3
         /\ actions[1].kind = "Move" /\ actions[1].unit_id = my_units[1].unit_id
         /\ Len(actions[1].path) = 2 /\ actions[1].path[2] = enemy_hq
         /\ actions[2] = CaptureAction(my_units[1].unit_id)
         /\ actions[3] = EndTurnAction

\* C1 witness: plan_turn has returned the list of the example, with its Capture
C1_Witness == pc = "done" /\ C1_Scenario /\ HasCapture(actions)

\* C2: for every action list, with a Capture in it actions_to_calls emits no end_turn
\* call and every capture call after all move_unit and attack calls; the move_unit
\* and attack calls keep the order of their actions (one call per action, by
\* entry point and unit)
C2_CaptureCallsLastMovesInOrder ==
  pc = "called" =>
    LET early == SelectSeq(calls, LAMBDA c : c.entrypoint \in {"move_unit", "attack"})
        acted == SelectSeq(actions, LAMBDA a : a.kind \in {"Move", "Attack"})
    IN /\ HasCapture(actions) =>
            /\ \A i \in 1..Len(calls) : calls[i].entrypoint # "end_turn"
            /\ \A i, j \in 1..Len(calls) :
                 calls[i].entrypoint = "capture" /\ calls[j].entrypoint \in {"move_unit", "attack"} => j < i
            /\ \E i \in 1..Len(calls) : calls[i].entrypoint = "capture"
       /\ Len(early) = Len(acted)
       /\ \A i \in 1..Len(early) :
            /\ early[i].entrypoint = (IF acted[i].kind = "Move" THEN "move_unit" ELSE "attack")
            /\ early[i].calldata[2] = acted[i].unit_id

\* C2 witness: a list with a Capture ahead of a Move and of an EndTurn has been
\* turned into calls
C2_Witness ==
  /\ pc = "called"
  /\ \E i, j, k \in 1..Len(actions) :
       /\ i < j /\ actions[i].kind = "Capture" /\ actions[j].kind = "Move"
       /\ actions[k].kind = "EndTurn"

\* C3 as stated: plan_turn returns for every snapshot, its list is never empty, and
\* a list without a Capture holds exactly one EndTurn, as its last element
C3_AlwaysReturnsListEndingInEndTurn ==
  /\ pc # "raised"
  /\ Returned =>
       /\ actions # <<>>
       /\ ~HasCapture(actions) => EndTurns(actions) = {Len(actions)}

UnitById(id) == CHOOSE u \in {game_state.units[i] : i \in 1..Len(game_state.units)} : u.unit_id = id

\* the expected damage of the Attack actions[j], as the ledger books it
LedgeredDamage(j) ==
  Max(UNIT_ATK[UnitById(actions[j].unit_id).unit_type]
      - TERRAIN_DEFENSE[game_state.grid[Pos(UnitById(actions[j].target_id))]], 1)

\* the sum of the ledgered damage of the Attack actions before place i on target t
RECURSIVE LedgerBefore(_, _)
LedgerBefore(i, t) ==
  IF i <= 1 THEN 0
  ELSE LedgerBefore(i - 1, t)
       + (IF actions[i - 1].kind = "Attack" /\ actions[i - 1].target_id = t THEN LedgeredDamage(i - 1) ELSE 0)

\* C8: for every Attack of the list plan_turn builds, the ledgered damage of the
\* earlier Attacks on the same target is strictly less than the target's hit points
C8_NoAttackOnCoveredTarget ==
  \A i \in 1..Len(actions) :
    actions[i].kind = "Attack" => LedgerBefore(i, actions[i].target_id) < UnitById(actions[i].target_id).hp

\* C8 witness: two units have attacked one target, the ledger has met its hit
\* points, and a unit planned after them, in range of that target, has no Attack
C8_Witness ==
  /\ pc = "done"
  /\ \E i, j, k \in 1..Len(actions) :
       /\ i < j /\ j < k
       /\ actions[i].kind = "Attack" /\ actions[j].kind = "Attack"
       /\ actions[i].target_id = actions[j].target_id
       /\ LedgerBefore(j + 1, actions[j].target_id) >= UnitById(actions[j].target_id).hp
       /\ actions[k].kind \in {"Move", "Wait"}
       /\ LET u == UnitById(actions[k].unit_id)
          IN /\ in_attack_range(u.unit_type, Pos(u), Pos(UnitById(actions[j].target_id)))
             /\ \A m \in 1..Len(actions) : actions[m].unit_id = u.unit_id => actions[m].kind # "Attack"

\* the units the triage of plan_turn has classified
Triaged == {plan.retreaters[i] : i \in 1..Len(plan.retreaters)} \cup {plan.attackers[i] : i \in 1..Len(plan.attackers)}

\* the unit of the example: melee, 3 hit points, threshold 0.5, danger 3 on its cell
C9_Case(u) ==
  /\ u.unit_type \in {INFANTRY, TANK}
  /\ u.hp = 3
  /\ plan.strat.retreat_threshold = 50
  /\ plan.danger_map[Pos(u)] = 3

\* C9 as stated: the triage classifies the unit of the example as a retreater
C9_MeleeUnitOfThreeRetreats ==
  pc = "roles" =>
    \A u \in Triaged : C9_Case(u) => \E i \in 1..Len(plan.retreaters) : plan.retreaters[i] = u

\* C9 amended: the triage classifies the unit of the example as an attacker, never as
\* a retreater: an Infantry of 3 hit points is at full health, and a Tank of 3 hit
\* points out of 5 has the ratio 0.6, above the threshold 0.5
C9_MeleeUnitOfThreeAttacks ==
  pc = "roles" =>
    \A u \in Triaged : C9_Case(u) =>
      /\ \E i \in 1..Len(plan.attackers) : plan.attackers[i] = u
      /\ \A i \in 1..Len(plan.retreaters) : plan.retreaters[i] # u

\* C9 witness: the triage has classified a Tank of 3 hit points on a cell of danger 3
\* under a preset of threshold 0.5
C9_Witness ==
  /\ pc = "roles"
  /\ \E u \in Triaged : C9_Case(u) /\ u.unit_type = TANK

\* ------------------------------------------------------------------ claims: the roles of plan_turn
\* the actions of the returned list that unit id is the subject of
ActsOf(id) == SelectSeq(actions, LAMBDA a : a.unit_id = id)

KindsOf(id) == {ActsOf(id)[i].kind : i \in 1..Len(ActsOf(id))}

\* C11: every unit eligible to act this round for which the returned list holds no
\* Move, Attack or Capture action has a Wait action in the list, in every branch of
\* plan_turn, the capture march with no enemy alive included
C11_IdleUnitAlwaysWaits ==
  Returned =>
    \A i \in 1..Len(actionable) :
      KindsOf(actionable[i].unit_id) \cap {"Move", "Attack", "Capture"} = {}
        => "Wait" \in KindsOf(actionable[i].unit_id)

\* the indices of the Move actions of the list
Moves == {i \in 1..Len(actions) : actions[i].kind = "Move"}

\* the living units of both sides, as the snapshot holds them
Living == SelectSeq(game_state.units, LAMBDA u : u.is_alive)

\* a unit has a Move among the first n actions
MovedWithin(id, n) == \E j \in Moves : j <= n /\ actions[j].unit_id = id

\* the cell a unit ends the planned turn on
FinalCell(u) ==
  IF MovedWithin(u.unit_id, Len(actions))
  THEN LET j == CHOOSE k \in Moves : actions[k].unit_id = u.unit_id
       IN actions[j].path[Len(actions[j].path)]
  ELSE Pos(u)

\* C12: no cell of a Move's path is the position of a living unit that has not yet
\* moved in this plan, nor the destination of a Move earlier in the list; so no two
\* living units end the planned turn on the same cell
C12_PathsAvoidUnitsAndDestinations ==
  /\ \A i \in Moves : \A k \in 1..Len(actions[i].path) :
       /\ \A n \in 1..Len(Living) :
            ~MovedWithin(Living[n].unit_id, i - 1) => actions[i].path[k] # Pos(Living[n])
       /\ \A j \in Moves : j < i => actions[i].path[k] # actions[j].path[Len(actions[j].path)]
  /\ \A m, n \in 1..Len(Living) : m # n => FinalCell(Living[m]) # FinalCell(Living[n])

\* a returned plan in which a unit moves onto or across the cell an earlier unit has
\* left, and another ends next to the destination of an earlier Move
C12_Witness ==
  /\ Returned
  /\ \E i, j \in Moves :
       /\ j < i
       /\ \E k \in 1..Len(actions[i].path) : actions[i].path[k] = Pos(UnitById(actions[j].unit_id))
  /\ \E i, j \in Moves :
       /\ j < i
       /\ manhattan(actions[i].path[Len(actions[i].path)], actions[j].path[Len(actions[j].path)]) = 1

C14_SelfplayThreadsWithinLimit == selfplay_count(manager.game_threads) <= manager.max_games

\* C15: every value full_path_distance assigns to a cell c is the least movement
\* cost of a walk from c to the goal (the sum of the entry costs of the cells the
\* walk enters, as find_reachable charges them), without budget or occupancy
C15_DistanceIsCheapestWalkToGoal ==
  Measured =>
    \A c \in Keys(true_dist) :
      Get(true_dist, c).cost = MinWalk(game_state.grid, c, query.unit_type, {})[query.goal]

\* C16: for every cell other than the start that find_reachable returns, the path is
\* a non-empty sequence of cells that begins at a 4-neighbour of the start, moves by
\* one 4-adjacent step each time, ends at the cell, holds neither the start, a
\* blocked cell nor a cell impassable for the unit type, and the entry costs of its
\* cells add up to the returned cost
C16_PathsAreWalksOfTheirCost ==
  Reached =>
    \A i \in 1..Len(reachable) :
      reachable[i].pos # query.start =>
        LET path == reachable[i].path
        IN /\ path # <<>>
           /\ path[1] \in neighbors(query.start)
           /\ \A k \in 1..Len(path) - 1 : path[k + 1] \in neighbors(path[k])
           /\ path[Len(path)] = reachable[i].pos
           /\ \A k \in 1..Len(path) :
                /\ path[k] # query.start
                /\ path[k] \notin query.occupied
                /\ move_cost(game_state.grid[path[k]], query.unit_type) # None
           /\ SumSeq([k \in 1..Len(path) |-> move_cost(game_state.grid[path[k]], query.unit_type)])
                = reachable[i].cost

\* a call with a blocked cell that returns a path of three cells, one of them a
\* mountain, which leads around the blocked cell or an impassable one
C16_Witness ==
  /\ Reached
  /\ query.occupied # {}
  /\ \E i \in 1..Len(reachable) :
       /\ Len(reachable[i].path) = 3
       /\ reachable[i].cost > manhattan(reachable[i].pos, query.start)
       /\ \E k \in 1..3 : game_state.grid[reachable[i].path[k]] = TERRAIN_MOUNTAIN

\* the cell a unit stands on when it performs actions[i]
CellAt(i) ==
  IF \E j \in Moves : j < i /\ actions[j].unit_id = actions[i].unit_id
  THEN FinalCell(UnitById(actions[i].unit_id))
  ELSE Pos(UnitById(actions[i].unit_id))

\* the damage the target of the Attack actions[i] deals back to the attacker
CounterDamage(i) ==
  Max(UNIT_ATK[UnitById(actions[i].target_id).unit_type] - TERRAIN_DEFENSE[game_state.grid[CellAt(i)]], 1)

\* C17: whenever the list holds, for one unit, an Attack followed by a Wait, either
\* the ledgered damage on the target (this Attack included) reaches the target's hit
\* points, or the target's counter-damage on the attacker's cell is less than the
\* attacker's hit points; from the starting cell as well as after a Move
C17_WaitAfterAttackOnlyIfSafe ==
  \A i \in 1..Len(actions) - 1 :
    /\ actions[i].kind = "Attack"
    /\ actions[i + 1].kind = "Wait"
    /\ actions[i + 1].unit_id = actions[i].unit_id
    => \/ LedgerBefore(i + 1, actions[i].target_id) >= UnitById(actions[i].target_id).hp
       \/ CounterDamage(i) < UnitById(actions[i].unit_id).hp

\* the capture march: no enemy is alive and there is an enemy HQ to march to
Marching == pc \in {"march", "done", "called"} /\ enemies = <<>> /\ enemy_hq # NoPos

\* the value full_path_distance gives a unit's cell for the unit's type (Inf: none)
TrueDistanceToHQ(u) ==
  With(full_path_distance(game_state.grid, Pos(u), enemy_hq, u.unit_type), LAMBDA dist :
    IF Pos(u) \in Keys(dist) THEN Get(dist, Pos(u)).cost ELSE Inf)

\* the place of a unit in game_state.units
PlaceOf(id) == CHOOSE i \in 1..Len(game_state.units) : game_state.units[i].unit_id = id

\* the actions of units, i.e. all but EndTurn
UnitActions == {i \in 1..Len(actions) : actions[i].kind # "EndTurn"}

\* C18 as stated: with no enemy alive the units are processed, and their actions
\* listed, in order of ascending true path distance to the enemy HQ
C18_MarchInTruePathOrder ==
  Marching =>
    \A i, j \in UnitActions :
      i < j => TrueDistanceToHQ(UnitById(actions[i].unit_id)) <= TrueDistanceToHQ(UnitById(actions[j].unit_id))

\* C18 amended: with no enemy alive and an enemy HQ on the map the units are
\* processed, and their actions listed, in order of ascending Manhattan distance
\* from the unit's cell to the enemy HQ, units of equal distance in the order of
\* game_state.units
C18_MarchInManhattanOrder ==
  Marching =>
    /\ \A i, j \in 1..Len(plan.actionable) :
         i < j => LexLess(<<manhattan(Pos(plan.actionable[i]), enemy_hq), PlaceOf(plan.actionable[i].unit_id)>>,
                          <<manhattan(Pos(plan.actionable[j]), enemy_hq), PlaceOf(plan.actionable[j].unit_id)>>)
    /\ \A i, j \in UnitActions :
         i < j => manhattan(Pos(UnitById(actions[i].unit_id)), enemy_hq)
                    <= manhattan(Pos(UnitById(actions[j].unit_id)), enemy_hq)

\* a returned march of two units in which the unit nearer by Manhattan distance has
\* moved first although its walk to the enemy HQ is the longer one
C18_Witness ==
  /\ Marching /\ Returned
  /\ \E i, j \in Moves :
       /\ i < j
       /\ manhattan(Pos(UnitById(actions[i].unit_id)), enemy_hq) < manhattan(Pos(UnitById(actions[j].unit_id)), enemy_hq)
       /\ TrueDistanceToHQ(UnitById(actions[i].unit_id)) > TrueDistanceToHQ(UnitById(actions[j].unit_id))

\* the attacker the next step of phase 4 plans
NextAttacker == plan.attackers[plan.done - NScreen + 1]

\* the next step plans a Ranger that has no focus target to attack from its cell
RangerMustMove ==
  /\ pc = "roles" /\ NScreen <= plan.done /\ plan.done < NAttack
  /\ NextAttacker.unit_type = RANGER
  /\ pick_focus_target_in_range(NextAttacker, Pos(NextAttacker), plan.focus_order, game_state,
                                plan.already_targeted, plan.strat) = NoUnit

\* the cell of the top focus target
TopTargetPos == Pos(IF plan.focus_order # <<>> THEN plan.focus_order[1] ELSE enemies[1])

\* the tiles the Ranger can move to that lie in its attack band of the top target
SnipingTiles ==
  With(find_reachable(game_state.grid, Pos(NextAttacker), RANGER, plan.occupied \ {Pos(NextAttacker)}, None),
       LAMBDA reach :
         {reach[i].pos : i \in {k \in 1..Len(reach) :
                                  /\ reach[k].path # <<>>
                                  /\ in_attack_range(RANGER, reach[k].pos, TopTargetPos)}})

\* C19: a Ranger with no attackable focus target at its cell moves to a reachable
\* tile within its attack band of the top focus target whenever there is one; only
\* when there is none does it advance along the best_move_toward path to that
\* target, and it waits if that path is empty
C19_RangerSnipesElseAdvances ==
  [][RangerMustMove /\ plan'.done = plan.done + 1 =>
       With(SubSeq(actions', Len(actions) + 1, Len(actions')), LAMBDA new :
       With(best_move_toward(game_state.grid, Pos(NextAttacker), TopTargetPos, RANGER,
                             plan.occupied \ {Pos(NextAttacker)}), LAMBDA path :
         IF SnipingTiles # {}
         THEN new[1].kind = "Move" /\ new[1].path[Len(new[1].path)] \in SnipingTiles
         ELSE IF path # <<>> THEN new[1] = MoveAction(NextAttacker.unit_id, path)
         ELSE new = <<WaitAction(NextAttacker.unit_id)>>))]_vars

\* the unit ids of a list of units
IdsOf(us) == {us[i].unit_id : i \in 1..Len(us)}

\* the roles have been assigned (enemies are alive)
RolesAssigned == enemies # <<>> /\ pc \in {"roles", "done", "called"} /\ actionable # <<>>

\* C20: with enemies alive the four role groups flankers, screeners, retreaters and
\* attackers are pairwise disjoint, together they are exactly the units eligible to
\* act this round, and flankers and screeners hold only Infantry
C20_RolesPartitionEligibleUnits ==
  RolesAssigned =>
    /\ IdsOf(plan.flankers) \cup IdsOf(plan.screeners) \cup IdsOf(plan.retreaters) \cup IdsOf(plan.attackers)
         = IdsOf(actionable)
    /\ Len(plan.flankers) + Len(plan.screeners) + Len(plan.retreaters) + Len(plan.attackers) = Len(actionable)
    /\ IdsOf(plan.flankers) \cap IdsOf(plan.screeners) = {}
    /\ (IdsOf(plan.flankers) \cup IdsOf(plan.screeners)) \cap IdsOf(plan.retreaters) = {}
    /\ (IdsOf(plan.flankers) \cup IdsOf(plan.screeners) \cup IdsOf(plan.retreaters)) \cap IdsOf(plan.attackers) = {}
    /\ \A i \in 1..Len(plan.flankers) : plan.flankers[i].unit_type = INFANTRY
    /\ \A i \in 1..Len(plan.screeners) : plan.screeners[i].unit_type = INFANTRY

\* roles assigned with a flanker or a screener, a retreater and an Infantry among
\* the attackers, while a living unit of the side has acted already and has no role
C20_Witness ==
  /\ RolesAssigned
  /\ Len(actionable) < Len(my_units)
  /\ plan.flankers # <<>> \/ plan.screeners # <<>>
  /\ plan.retreaters # <<>>
  /\ \E i \in 1..Len(plan.attackers) : plan.attackers[i].unit_type = INFANTRY

\* ------------------------------------------------------------------ claims: the order of the list
\* the phase of a unit: 1 flanker, 2 retreater, 3 screener, 4 attacker, 0 no role
PhaseOf(id) ==
  IF id \in IdsOf(plan.flankers) THEN 1
  ELSE IF id \in IdsOf(plan.retreaters) THEN 2
  ELSE IF id \in IdsOf(plan.screeners) THEN 3
  ELSE IF id \in IdsOf(plan.attackers) THEN 4
  ELSE 0

\* the place of a kind of action among the actions of one unit
KindRank(kind) == CASE kind = "Move" -> 1 [] kind \in {"Attack", "Capture"} -> 2 [] OTHER -> 3

\* plan_turn has returned from its branch with enemies alive
ReturnedFromBattle == Returned /\ enemies # <<>> /\ actionable # <<>>

\* C21: in the list plan_turn returns when enemies are alive, the actions of flankers
\* come before those of retreaters, then screeners, then attackers; the actions of one
\* unit are contiguous, and among them a Move comes before an Attack or Capture, which
\* comes before a Wait.
C21_PhasesAndUnitActionsInOrder ==
  ReturnedFromBattle =>
    \A i, j \in UnitActions : i < j =>
      /\ PhaseOf(actions[i].unit_id) >= 1
      /\ PhaseOf(actions[i].unit_id) <= PhaseOf(actions[j].unit_id)
      /\ actions[i].unit_id = actions[j].unit_id =>
           /\ \A k \in i..j : actions[k].unit_id = actions[i].unit_id
           /\ KindRank(actions[i].kind) < KindRank(actions[j].kind)

\* a returned list with the actions of a flanker, a retreater and an attacker, one unit
\* of which moves, attacks and waits
C21_Witness ==
  /\ ReturnedFromBattle
  /\ {1, 2, 4} \subseteq {PhaseOf(actions[i].unit_id) : i \in UnitActions}
  /\ \E id \in UnitIds : KindsOf(id) = {"Move", "Attack", "Wait"}

\* a returned list with the actions of a screener and of an attacker after it
C21_WitnessScreener ==
  /\ ReturnedFromBattle
  /\ {3, 4} \subseteq {PhaseOf(actions[i].unit_id) : i \in UnitActions}

\* ------------------------------------------------------------------ claims: best_move_toward
Advised == pc = "advised"

\* the reachable set of the call
Reach == find_reachable(game_state.grid, query.start, query.unit_type, query.occupied, None)

\* the distance to the goal the call ranks a tile by (NoWalk: the tile has none)
ToGoal ==
  LET dist == full_path_distance(game_state.grid, query.start, query.goal, query.unit_type)
      known == Keys(dist)
  IN [c \in Cells |-> IF c \in known THEN Get(dist, c).cost ELSE NoWalk]

C22_WitnessStuck ==
  /\ Advised
  /\ best_path = <<>>
  /\ query.goal # query.start
  /\ ToGoal[query.start] # NoWalk

\* ------------------------------------------------------------------ claims: the danger map
\* the tiles an enemy can stand on next turn: its own and those a walk within its
\* movement budget reaches when no cell is blocked
NextTurnTiles(e) ==
  LET walk == MinWalk(game_state.grid, Pos(e), e.unit_type, {})
  IN {t \in Cells : walk[t] <= MOVE_RANGE[e.unit_type]}

\* the damage enemy e adds to cell c from the tiles it can stand on: one hit for each
\* tile with c in its attack band
DangerFrom(e, tiles, c) ==
  Cardinality({t \in tiles : in_attack_range(e.unit_type, t, c)})
    * Max(UNIT_ATK[e.unit_type] - TERRAIN_DEFENSE[game_state.grid[c]], 1)

\* plan_turn has just built its danger map
DangerMapBuilt == pc = "roles" /\ plan.done = 0

\* C23: build_danger_map gives every cell c the sum, over every living enemy e and
\* every tile t that e can stand on next turn with c in e's attack band around t, of
\* max(atk(e) - terrain_defense(c), 1); a cell with no such pair has danger 0.
C23_DangerIsSumOverEnemyTiles ==
  DangerMapBuilt =>
    LET tiles == [i \in 1..Len(enemies) |-> NextTurnTiles(enemies[i])]
    IN \A c \in Cells :
         plan.danger_map[c] = SumSeq([i \in 1..Len(enemies) |-> DangerFrom(enemies[i], tiles[i], c)])

\* a danger map built from a Tank and another enemy, whose reach a mountain cuts, with
\* a cell of positive terrain defense in danger and a cell out of danger
C23_Witness ==
  /\ DangerMapBuilt
  /\ Len(enemies) >= 2
  /\ \E i \in 1..Len(enemies) :
       /\ enemies[i].unit_type = TANK
       /\ \E t \in Cells : manhattan(t, Pos(enemies[i])) <= 2 /\ t \notin NextTurnTiles(enemies[i])
  /\ \E c \in Cells : TERRAIN_DEFENSE[game_state.grid[c]] > 0 /\ plan.danger_map[c] > 0
  /\ \E c \in Cells : plan.danger_map[c] = 0

\* ------------------------------------------------------------------ claims: the strategy
Picked == pc = "picked"

WayBehind == enemies # <<>> /\ Len(enemies) >= Len(my_units) + 3

C24_WitnessNoEnemyAlive ==
  /\ Picked
  /\ enemies = <<>>
  /\ \E i \in 1..Len(game_state.units) : game_state.units[i].player_id = 2

\* ------------------------------------------------------------------ claims: the Assassin focus order
Assigned == pc = "assigned"

OrderOfIds(order) == [i \in 1..Len(order) |-> order[i].unit_id]

\* every Tank comes before every Ranger, every Ranger before every Infantry
ByUnitValue(order) ==
  \A i, j \in 1..Len(order) : i < j => unit_value(order[i].unit_type) >= unit_value(order[j].unit_type)

TwinEnemies == enemy_units(twin.game_state, player_id)

\* C25 as stated: under the Assassin preset the focus order ranks the enemies by the
\* value of their unit type alone, and two enemy sets that differ only in hit points
\* or positions yield the same order of unit ids.
C25_OrderIgnoresHitPointsAndPositions ==
  Assigned =>
    /\ ByUnitValue(plan.focus_order)
    /\ OrderOfIds(plan.focus_order) = OrderOfIds(twin.focus_order)

\* C25 as the code has it: the order ranks by unit-type value, then lower hit points,
\* then lower unit id; two enemy sets that differ only in positions yield the same
\* order of unit ids.
C25_OrderByValueThenHitPoints ==
  Assigned =>
    /\ ByUnitValue(plan.focus_order)
    /\ \A i, j \in 1..Len(plan.focus_order) :
         i < j /\ plan.focus_order[i].unit_type = plan.focus_order[j].unit_type =>
           \/ plan.focus_order[i].hp < plan.focus_order[j].hp
           \/ /\ plan.focus_order[i].hp = plan.focus_order[j].hp
              /\ plan.focus_order[i].unit_id < plan.focus_order[j].unit_id
    /\ (\A k \in 1..Len(enemies) : enemies[k].hp = TwinEnemies[k].hp)
         => OrderOfIds(plan.focus_order) = OrderOfIds(twin.focus_order)

\* two snapshots with the same hit points and different positions, with two units of
\* one type among three, the weaker of which has the higher id
C25_Witness ==
  /\ Assigned
  /\ Len(enemies) = 3
  /\ \A k \in 1..Len(enemies) : enemies[k].hp = TwinEnemies[k].hp
  /\ \E k \in 1..Len(enemies) : Pos(enemies[k]) # Pos(TwinEnemies[k])
  /\ \E i, j \in 1..Len(enemies) :
       /\ i < j
       /\ enemies[i].unit_type = enemies[j].unit_type
       /\ enemies[i].hp > enemies[j].hp
  /\ \E i, j \in 1..Len(enemies) : enemies[i].unit_type # enemies[j].unit_type

\* ------------------------------------------------------------------ claims: the transaction queue
\* C26: at most one call batch is being executed through the controller CLI at any
\* time; every batch a GameThread or the Manager submits is executed by the one
\* TxQueue worker, one at a time, in the order the batches were enqueued.
C26_OneBatchAtATimeInQueueOrder ==
  /\ Cardinality(tx_queue.executing) <= 1
  /\ \A i, j \in 1..Len(tx_queue.executed) : i < j => tx_queue.executed[i] < tx_queue.executed[j]
  /\ \A b \in tx_queue.executing :
       /\ \A i \in 1..Len(tx_queue.executed) : tx_queue.executed[i] < b.id
       /\ \A k \in 1..Len(tx_queue.queue) : b.id < tx_queue.queue[k].id
  /\ \A i \in 1..Len(tx_queue.executed), k \in 1..Len(tx_queue.queue) :
       tx_queue.executed[i] < tx_queue.queue[k].id

\* a batch has been executed, a batch of another thread runs and a batch of a third
\* thread waits in the queue
C26_Witness ==
  /\ Len(tx_queue.executed) >= 1
  /\ tx_queue.executing # {}
  /\ tx_queue.queue # <<>>
  /\ \A b \in tx_queue.executing, k \in 1..Len(tx_queue.queue) : b.owner # tx_queue.queue[k].owner

\* the batches of thread t that wait in the queue or are being executed
PendingOf(t) ==
  {tx_queue.queue[k].id : k \in {n \in 1..Len(tx_queue.queue) : tx_queue.queue[n].owner = t}}
    \cup {b.id : b \in {x \in tx_queue.executing : x.owner = t}}

\* C29: a GameThread never enqueues a batch while a batch it enqueued earlier still
\* waits in the TxQueue or is being executed: submit_and_wait returns to the thread
\* only after its own batch has been executed.
C29_NoSecondBatchWhileOnePending ==
  \A t \in GameIds :
    /\ Cardinality(PendingOf(t)) <= 1
    /\ threads[t].pc = "idle" => PendingOf(t) = {}

\* C30: a GameThread abandons its game on the error-count rule only when its three
\* most recent batches all came back with status error; the exceptions of a tick
\* never contribute.
C30_AbandonOnlyAfterThreeFailedBatches ==
  \A t \in GameIds : threads[t].abandoned => threads[t].errors_in_a_row >= 3

\* ------------------------------------------------------------------ claims: attacks and captures
Attacks == {i \in 1..Len(actions) : actions[i].kind = "Attack"}

Captures == {i \in 1..Len(actions) : actions[i].kind = "Capture"}

\* C27: for every Attack action plan_turn emits, the target is a living enemy unit,
\* and the Manhattan distance between the attacker's cell at that point of the list
\* (the last cell of its Move if it moved earlier in the list, else its snapshot cell)
\* and the target's snapshot cell lies in the attacker's attack band.
C27_AttacksHitLivingEnemiesInRange ==
  \A i \in Attacks :
    /\ actions[i].target_id \in UnitIds
    /\ UnitById(actions[i].target_id).is_alive
    /\ UnitById(actions[i].target_id).player_id # player_id
    /\ UnitById(actions[i].unit_id).player_id = player_id
    /\ manhattan(CellAt(i), Pos(UnitById(actions[i].target_id)))
         \in IF UnitById(actions[i].unit_id).unit_type = RANGER THEN 2..3 ELSE {1}

\* a returned list in which a Ranger attacks from two or three cells away after a
\* Move, a Tank or an Infantry attacks from its snapshot cell, and an enemy in the
\* snapshot is left without an attack
C27_Witness ==
  /\ Returned
  /\ \E i \in Attacks :
       /\ UnitById(actions[i].unit_id).unit_type = RANGER
       /\ CellAt(i) # Pos(UnitById(actions[i].unit_id))
  /\ \E i \in Attacks :
       /\ UnitById(actions[i].unit_id).unit_type # RANGER
       /\ CellAt(i) = Pos(UnitById(actions[i].unit_id))
  /\ \E k \in 1..Len(enemies) : \A i \in Attacks : actions[i].target_id # enemies[k].unit_id

\* C28: every Capture action plan_turn emits is for an Infantry or a Ranger whose cell
\* at that point of the list (the last cell of its Move if it moved, else its snapshot
\* cell) is the enemy headquarters; a Tank never gets a Capture, and no Capture is
\* emitted when the snapshot has no enemy headquarters.
C28_CapturesOnlyByFootUnitsOnEnemyHQ ==
  \A i \in Captures :
    /\ enemy_hq # NoPos
    /\ actions[i].unit_id \in UnitIds
    /\ UnitById(actions[i].unit_id).player_id = player_id
    /\ UnitById(actions[i].unit_id).unit_type \in {INFANTRY, RANGER}
    /\ CellAt(i) = enemy_hq

\* a returned list with a Capture after a Move that ends on the enemy headquarters
C28_Witness ==
  /\ Returned
  /\ \E i \in Captures : \E j \in Moves :
       /\ j < i
       /\ actions[j].unit_id = actions[i].unit_id
       /\ actions[j].path[Len(actions[j].path)] = enemy_hq

\* a returned list that moves a Tank onto the enemy headquarters and holds no Capture
C28_WitnessTank ==
  /\ Returned
  /\ Captures = {}
  /\ \E j \in Moves :
       /\ UnitById(actions[j].unit_id).unit_type = TANK
       /\ actions[j].path[Len(actions[j].path)] = enemy_hq

\* a returned list, planned with enemies alive, with a Capture by a flanker that
\* stands on the enemy headquarters in the snapshot and has no Move
C28_WitnessFlanker ==
  /\ Returned
  /\ enemies # <<>>
  /\ \E i \in Captures :
       /\ Pos(UnitById(actions[i].unit_id)) = enemy_hq
       /\ \A j \in Moves : actions[j].unit_id # actions[i].unit_id

\* a returned list, planned with enemies alive, with a Capture after a flanker's Move
C28_WitnessFlankerMoves ==
  /\ Returned
  /\ enemies # <<>>
  /\ \E i \in Captures : \E j \in Moves : j < i /\ actions[j].unit_id = actions[i].unit_id

====
